---- MODULE Spec2Model ----
(***************************************************************************)
(* Availability and shift coordination of the ciphered-app scheduling      *)
(* application: the PC weekly grid (AvailabilityGrid), the PA shift list   *)
(* (PAShifts) and the PA month calendar (PACalendar), each a client store  *)
(* with optimistic writes against a shared relational store and a change   *)
(* feed.                                                                   *)
(*                                                                         *)
(* Four specifications share the variables: Spec (the PC grid, with the    *)
(* PA's writes arriving from outside), SpecPAShifts (the PA's shift list), *)
(* SpecFlow (grid and list together, from assignment to answer) and        *)
(* SpecCalendar (the PA's calendar).                                       *)
(*                                                                         *)
(* Every handler is cut at its awaits: the code between two awaits of a    *)
(* handler is one action.  A persistence call is a request that the        *)
(* database executes (DbExec...) and a response that the handler's         *)
(* continuation consumes (...Complete); change-feed events are queued by   *)
(* the database at execution time and delivered later, so an echo may be   *)
(* merged before or after the continuation.                                *)
(*                                                                         *)
(* Rows leave out created_at / updated_at.  Dates are day numbers of the   *)
(* loaded window, times are the lists of their ':'-separated parts, the    *)
(* empty list standing for null (database) and '' (time input), which are  *)
(* both falsy and never meet in one field.                                 *)
(***************************************************************************)
EXTENDS Integers, Sequences, FiniteSets, TLC

\* ---------------------------------------------------------------- bounds
MaxWrites == 2
MaxOps == 2

\* ------------------------------------------------------------- universes
PA1 == "p1"
PC1 == "pc1"
NullUser == "null"
Dates == {1}
NullTime == <<>>
\* what the user types into the call-time and wrap-time inputs
UITimePairs == {<<<<>>, <<>>>>, <<<<8, 0>>, <<>>>>}
NullStatus == "null"
NullNote == "null"
UINotes == {"", "late"}

NullShift ==
  [id |-> 0, date |-> 0, assigned_pa_id |-> NullUser, assigned_by_id |-> NullUser,
   call_time |-> NullTime, wrap_time |-> NullTime, confirmation_status |-> "pending"]

NullAvail ==
  [id |-> 0, user_id |-> NullUser, date |-> 0, status |-> NullStatus, pa_note |-> NullNote]

\* --------------------------------------------------------- array helpers
Range(s) == {s[i] : i \in DOMAIN s}

RECURSIVE Filter(_, _)
\* Array.prototype.filter with the predicate given as the set of kept ids
Filter(s, keepIds) ==
  IF s = <<>> THEN <<>>
  ELSE IF Head(s).id \in keepIds
       THEN <<Head(s)>> \o Filter(Tail(s), keepIds)
       ELSE Filter(Tail(s), keepIds)

\* the inverted predicate: prev.filter((x) => x.id === id)
KeepById(s, id) == Filter(s, {id})

\* prev.filter((x) => x.id !== id)
RemoveById(s, id) == Filter(s, {x.id : x \in Range(s)} \ {id})

\* prev.map((x) => x.id === id ? row : x)
ReplaceById(s, id, row) == [i \in DOMAIN s |-> IF s[i].id = id THEN row ELSE s[i]]

\* prev.some((x) => x.id === id)
SomeId(s, id) == \E i \in DOMAIN s : s[i].id = id

\* array.find(pred) || null, the predicate given as the set of matching elements
FindFirst(s, matching, null) ==
  IF \E i \in DOMAIN s : s[i] \in matching
  THEN s[CHOOSE i \in DOMAIN s : s[i] \in matching /\ \A j \in 1..(i - 1) : s[j] \notin matching]
  ELSE null

\* a store's initial array: the fetched rows in id order
RECURSIVE RowsToSeq(_)
RowsToSeq(rows) ==
  IF rows = {} THEN <<>>
  ELSE LET r == CHOOSE x \in rows : \A y \in rows : x.id <= y.id
       IN <<r>> \o RowsToSeq(rows \ {r})


\* .order('date'): rows by date, rows of one date in id order
RECURSIVE RowsByDate(_)
RowsByDate(rows) ==
  IF rows = {} THEN <<>>
  ELSE LET r == CHOOSE x \in rows :
                  \A y \in rows : x.date < y.date \/ (x.date = y.date /\ x.id <= y.id)
       IN <<r>> \o RowsByDate(rows \ {r})

\* ------------------------------------------------------------ time format
\* AvailabilityGrid.formatTimeForDB: HH:MM:SS kept, HH:MM gets ':00', '' and
\* anything else give null
formatTimeForDB(timeStr) ==
  IF timeStr = <<>> THEN NullTime
  ELSE IF Len(timeStr) = 3 THEN timeStr
  ELSE IF Len(timeStr) = 2 THEN timeStr \o <<0>>
  ELSE NullTime

\* shift.call_time ? shift.call_time.split(':').slice(0, 2).join(':') : ''
TimeForInput(t) == IF t = NullTime THEN <<>> ELSE SubSeq(t, 1, IF Len(t) < 2 THEN Len(t) ELSE 2)

\* the view dialog's Call Time / Wrap Time lines: {shift.call_time || 'Not set'}
GridViewTime(t) == IF t = NullTime THEN "Not set" ELSE t

\* ---------------------------------------------------------------- state
VARIABLES
  \* the relational store and the change feed
  dbShifts,          \* rows of table shifts
  dbAvail,           \* rows of table availability
  dbNextId,          \* next server-assigned id
  writes,            \* executed persistence writes (bounded by MaxWrites)
  \* AvailabilityGrid (PC weekly grid)
  shifts,            \* useState<Shift[]>
  availability,      \* useState<Availability[]>
  currentUserId,     \* null until auth.getUser() resolves
  selectedCell,
  isAssignDialogOpen,
  isViewDialogOpen,
  isEditMode,
  isLoading,
  callTime,
  wrapTime,
  gridOp,            \* the createShift / updateShift / deleteShift call in flight
  gridShiftsFeed,    \* channel 'shifts-changes': events not yet delivered
  gridAvailFeed,     \* channel 'availability-changes'
  tempClock,         \* mutations started so far; stands for Date.now() in temp ids
  \* history of the grid's last mutation, for the rollback claims
  gridHist,
  \* PAShifts (the PA's shift list)
  paMounted,         \* the component is mounted and its channel subscribed
  paShifts,          \* useState<Shift[]>
  paIsLoading,       \* useState<string | null>: a shift id, 0 for null
  paOps,             \* the confirmShift / declineShift calls in flight
  paFeed,            \* channel 'pa-shifts-changes': events not yet delivered
  paClock,           \* confirmShift / declineShift calls started so far
  paHist,            \* toast and email outcome of the last finished call
  \* PACalendar (the PA's month calendar)
  calMounted,        \* the component is mounted and its channel subscribed
  calAvailability,   \* useState<Availability[]>
  calIsLoading,      \* useState(false): a date click or note save is in flight
  calFetch,          \* the month fetch of the mount / month-change effect
  calOp,             \* the handleDateClick / saveNote call in flight
  calFeed,           \* channel 'pa-availability-changes': events not yet delivered
  calClock,          \* calls started so far; stands for Date.now()-Math.random() in temp ids
  selectedDate,      \* useState<string | null>: 0 for null
  noteDialogOpen,
  currentNote,
  \* DailyOverviewClient (the PC's daily overview)
  dailyMounted,          \* the component is mounted and its channel subscribed
  dailyShifts,           \* useState<Shift[]>
  dailySelectedShift,    \* selectedShift: the shift of the card that was clicked
  dailyIsEditDialogOpen,
  dailyCallTime,
  dailyWrapTime,
  dailyIsLoading,
  dailyOp,               \* the handleUpdateShift call in flight
  dailyFeed,             \* channel 'daily-overview-shifts-changes'
  dailyClock,            \* handleUpdateShift calls started so far
  dailyHist,             \* toast and notification of the last finished call
  \* PARealtimeSubscriptions (the PA dashboard's refresh channel)
  rtUserId,              \* useState<string | null>(null): set when auth.getUser() resolves
  rtFeed,                \* channel 'pa-dashboard-updates': events not yet delivered
  rtRefreshes,           \* router.refresh() calls made so far
  \* the subscribe status callbacks and the browser console
  chanStatus,            \* per channel, the last status its subscribe callback was given
  console,               \* the last console.log / console.warn / console.error call
  \* lib/email/notifications
  resendApiKey,          \* NEXT_PUBLIC_RESEND_API_KEY || RESEND_API_KEY of the process
  mail,                  \* the sendShift...Email call in progress
  outbox,                \* the messages the provider accepted
  \* the server side: tables users and productions, the middleware, the PC's
  \* server pages, the invite-code route and generator
  users,                 \* table users: id -> row, NoRow where there is none
  productions,           \* table productions: the rows, in insertion order
  mw,                    \* the middleware call in progress and its response
  page,                  \* getDashboardData / getDailyOverviewData in progress
  invite,                \* POST /api/validate-invite-code in progress
  gen,                   \* generateInviteCode: loop counter and code so far
  \* PACalendar: month navigation
  selectedMonth,         \* useState(today.getMonth()), with selectedYear: months count on
  \* the change-feed channels of the subscribing components
  subs,                  \* per component: mounted, the effect's dependencies, its channel
  channels,              \* every channel created on the realtime client, with its state
  \* the register page
  authUsers,             \* the accounts of the auth service, by user id
  reg                    \* the handleRegister call in progress and its outcome

dbVars == <<dbShifts, dbAvail, dbNextId, writes>>
gridVars == <<shifts, availability, currentUserId, selectedCell, isAssignDialogOpen,
              isViewDialogOpen, isEditMode, isLoading,
              callTime, wrapTime, gridOp, gridShiftsFeed, gridAvailFeed, tempClock, gridHist>>
paVars == <<paMounted, paShifts, paIsLoading, paOps, paFeed, paClock, paHist>>
paRest == <<paMounted, paShifts, paIsLoading, paOps, paClock, paHist>>
calVars == <<calMounted, calAvailability, calIsLoading, calFetch, calOp, calFeed, calClock,
             selectedDate, noteDialogOpen, currentNote>>
calRest == <<calMounted, calAvailability, calIsLoading, calFetch, calOp, calClock,
             selectedDate, noteDialogOpen, currentNote>>
dailyVars == <<dailyMounted, dailyShifts, dailySelectedShift, dailyIsEditDialogOpen,
               dailyCallTime, dailyWrapTime, dailyIsLoading, dailyOp, dailyFeed, dailyClock,
               dailyHist>>
dailyRest == <<dailyMounted, dailyShifts, dailySelectedShift, dailyIsEditDialogOpen,
               dailyCallTime, dailyWrapTime, dailyIsLoading, dailyOp, dailyClock, dailyHist>>
rtVars == <<rtUserId, rtFeed, rtRefreshes>>
logVars == <<chanStatus, console>>
mailVars == <<resendApiKey, mail, outbox>>
srvVars == <<users, productions, mw, page, invite, gen>>
navVars == <<selectedMonth>>
subVars == <<subs, channels>>
regVars == <<authUsers, reg>>
extVars == <<rtVars, logVars, mailVars, srvVars, navVars, subVars, regVars>>
extRest == <<rtUserId, rtRefreshes, logVars, mailVars, srvVars, navVars, subVars, regVars>>
exceptRt == <<logVars, mailVars, srvVars, navVars, subVars, regVars>>
exceptLog == <<rtVars, mailVars, srvVars, navVars, subVars, regVars>>
exceptMail == <<rtVars, chanStatus, srvVars, navVars, subVars, regVars>>
exceptSrv == <<rtVars, chanStatus, mailVars, navVars, subVars, regVars>>
exceptSub == <<rtVars, logVars, mailVars, srvVars, navVars, regVars>>
exceptReg == <<rtVars, logVars, mailVars, navVars, subVars>>
appVars == <<dbVars, gridVars, paVars, calVars, dailyVars>>
vars == <<appVars, extVars>>

NullCell == [paId |-> NullUser, date |-> 0, status |-> NullStatus, shift |-> NullShift,
             paNote |-> NullNote]

NoGridOp == [kind |-> "none", phase |-> "idle", shift |-> NullShift, update |-> NullShift,
             cell |-> NullCell, data |-> NullShift, error |-> FALSE]

\* toast: the toast the last finished mutation showed; email: how its email block
\* ended; pre: the store just before the optimistic apply of the mutation in
\* flight; clean: nothing but that mutation has changed the store since; prompt:
\* the answer to the last window.confirm of deleteShift
NoHist == [kind |-> "none", toast |-> "none", email |-> "none", pre |-> <<>>, clean |-> TRUE,
           prompt |-> "none"]

\* the last finished confirmShift / declineShift call: its toast, how its email
\* block ended, its shift, and the shifts of the calls still in flight then;
\* notify: the data handed to sendShiftConfirmationEmail; prompt: the answer to the
\* last window.confirm of declineShift
NoNotify == [to |-> NullUser, confirmationStatus |-> "none"]
NoPaHist == [toast |-> "none", email |-> "none", id |-> 0, concurrent |-> {},
             notify |-> NoNotify, prompt |-> "none"]

\* ------------------------------------------------------- grid: lookups
\* getAvailabilityStatus(paId, date, availability)
getAvailabilityStatus(paId, date, avail) ==
  FindFirst(avail, {a \in Range(avail) : a.user_id = paId /\ a.date = date}, NullAvail).status

\* getShiftForCell(paId, date, shifts)
getShiftForCell(paId, date, sh) ==
  FindFirst(sh, {x \in Range(sh) : x.assigned_pa_id = paId /\ x.date = date}, NullShift)

\* the cell's isClickable of the grid's render
isClickable(paId, date) ==
  \/ getShiftForCell(paId, date, shifts) # NullShift
  \/ getAvailabilityStatus(paId, date, availability) \in {"available", "preferred"}

\* ------------------------------------------------- change-feed merge rules
\* AvailabilityGrid 'shifts-changes' handler (also DailyOverviewClient's)
GridShiftsMerge(prev, ev) ==
  CASE ev.type = "INSERT" ->
         IF SomeId(prev, ev.row.id) THEN ReplaceById(prev, ev.row.id, ev.row)
         ELSE Append(prev, ev.row)
    [] ev.type = "UPDATE" -> ReplaceById(prev, ev.row.id, ev.row)
    [] ev.type = "DELETE" -> RemoveById(prev, ev.row.id)

\* AvailabilityGrid 'availability-changes' handler
GridAvailMerge(prev, ev) ==
  CASE ev.type = "INSERT" -> Append(prev, ev.row)
    [] ev.type = "UPDATE" -> ReplaceById(prev, ev.row.id, ev.row)
    [] ev.type = "DELETE" -> RemoveById(prev, ev.row.id)

Event(type, row) == [type |-> type, row |-> row]

\* the shifts channel exists only once currentUserId is set (effect guard)
GridShiftsPublish(feed, uid, evs) == IF uid = NullUser THEN feed ELSE feed \o evs

\* a channel on table shifts without a filter
PaShiftsPublishUnfiltered(feed, mounted, userId, evs) ==
  IF mounted THEN feed \o evs ELSE feed

\* PAShifts' channel: filter assigned_pa_id=eq.${userId}, open while mounted
PaShiftsPublish(feed, mounted, userId, evs) ==
  IF mounted THEN feed \o SelectSeq(evs, LAMBDA e : e.row.assigned_pa_id = userId) ELSE feed

\* DailyOverviewClient's channel: no filter, open while mounted
DailyPublish(feed, mounted, evs) == IF mounted THEN feed \o evs ELSE feed

\* PARealtimeSubscriptions' channel 'pa-dashboard-updates' exists only once userId is
\* set; table shifts with filter assigned_pa_id=eq.${userId}
RtShiftsPublish(feed, userId, evs) ==
  IF userId = NullUser THEN feed
  ELSE feed \o SelectSeq(evs, LAMBDA e : e.row.assigned_pa_id = userId)

\* the same channel, table availability with filter user_id=eq.${userId}
RtAvailPublish(feed, userId, evs) ==
  IF userId = NullUser THEN feed
  ELSE feed \o SelectSeq(evs, LAMBDA e : e.row.user_id = userId)

\* a row-level change of table shifts reaches every open channel
PublishShifts(evs) ==
  /\ gridShiftsFeed' = GridShiftsPublish(gridShiftsFeed, currentUserId, evs)
  /\ paFeed' = PaShiftsPublish(paFeed, paMounted, PA1, evs)
  /\ dailyFeed' = DailyPublish(dailyFeed, dailyMounted, evs)
  /\ rtFeed' = RtShiftsPublish(rtFeed, rtUserId, evs)

\* PACalendar's channel: filter user_id=eq.${userId}, open while mounted
CalPublish(feed, mounted, userId, evs) ==
  IF mounted THEN feed \o SelectSeq(evs, LAMBDA e : e.row.user_id = userId) ELSE feed

\* a row-level change of table availability reaches every open channel; the
\* grid's availability channel is opened on mount, without waiting for the user id
PublishAvail(evs) ==
  /\ gridAvailFeed' = gridAvailFeed \o evs
  /\ calFeed' = CalPublish(calFeed, calMounted, PA1, evs)
  /\ rtFeed' = RtAvailPublish(rtFeed, rtUserId, evs)

\* ------------------------------------------------------ the database side
\* .from('shifts').insert(row).select().single()
DbInsertShift(row) == [row EXCEPT !.id = dbNextId]

\* .update(patch).eq('id', id): the columns the patch names are overwritten
DbUpdate(old, patch) ==
  [f \in DOMAIN old |-> IF f \in DOMAIN patch THEN patch[f] ELSE old[f]]

\* a payload that also writes the status the shift is created with
shiftUpdateWithStatus(formattedCallTime, formattedWrapTime) ==
  [call_time |-> formattedCallTime, wrap_time |-> formattedWrapTime,
   confirmation_status |-> "pending"]

\* updateShift's payload: shiftUpdate = { call_time, wrap_time }
shiftUpdate(formattedCallTime, formattedWrapTime) ==
  [call_time |-> formattedCallTime, wrap_time |-> formattedWrapTime]

\* .from('shifts').update(shiftUpdate).eq('id', id).select().single(): the row it returns
DbUpdateTimes(old, call, wrap) == DbUpdate(old, shiftUpdate(call, wrap))
DbUpdateStatus(old, st) == [old EXCEPT !.confirmation_status = st]

\* a label that looks at the availability status only
getStatusLabelOfAvailability(status, hasShift) ==
  CASE status = "preferred" -> "Preferred"
    [] status = "available" -> "Available"
    [] status = "unavailable" -> "Unavailable"
    [] OTHER -> "No data"

\* getStatusColor(status, hasShift)
getStatusColor(status, hasShift) ==
  IF hasShift THEN "bg-primary text-primary-foreground"
  ELSE CASE status = "preferred" -> "bg-green-500 text-white"
         [] status = "available" -> "bg-green-200 text-green-900"
         [] status = "unavailable" -> "bg-red-200 text-red-900"
         [] OTHER -> "bg-gray-100 text-gray-500"

\* getStatusLabel(status, hasShift)
getStatusLabel(status, hasShift) ==
  IF hasShift THEN "Assigned"
  ELSE CASE status = "preferred" -> "Preferred"
         [] status = "available" -> "Available"
         [] status = "unavailable" -> "Unavailable"
         [] OTHER -> "No data"

\* the cell's hasShift, colorClass and label of the grid's render
hasShift(paId, date) == getShiftForCell(paId, date, shifts) # NullShift
colorClass(paId, date) ==
  getStatusColor(getAvailabilityStatus(paId, date, availability), hasShift(paId, date))
label(paId, date) ==
  getStatusLabel(getAvailabilityStatus(paId, date, availability), hasShift(paId, date))

DbShiftById(id) == FindFirst(RowsToSeq(dbShifts), {r \in dbShifts : r.id = id}, NullShift)
DbAvailFor(user, date) ==
  FindFirst(RowsToSeq(dbAvail), {r \in dbAvail : r.user_id = user /\ r.date = date}, NullAvail)

\* ------------------------------------------------------------------ Init
InitAvail == {[id |-> 1, user_id |-> PA1, date |-> 1, status |-> "preferred", pa_note |-> NullNote]}
InitShift ==
  [id |-> 2, date |-> 1, assigned_pa_id |-> PA1, assigned_by_id |-> PC1,
   call_time |-> NullTime, wrap_time |-> NullTime, confirmation_status |-> "pending"]

\* the rows the server components fetched: the PA's preferred day, with or
\* without a pending shift already assigned on it
InitDb ==
  /\ dbAvail = InitAvail
  /\ dbShifts \in {{}, {InitShift}}
  /\ dbNextId = 3
  /\ writes = 0

InitGrid ==
  /\ shifts = RowsToSeq(dbShifts)
  /\ availability = RowsToSeq(dbAvail)
  /\ currentUserId = NullUser
  /\ selectedCell = NullCell
  /\ isAssignDialogOpen = FALSE
  /\ isViewDialogOpen = FALSE
  /\ isEditMode = FALSE
  /\ isLoading = FALSE
  /\ callTime = <<>>
  /\ wrapTime = <<>>
  /\ gridOp = NoGridOp
  /\ gridShiftsFeed = <<>>
  /\ gridAvailFeed = <<>>
  /\ tempClock = 0
  /\ gridHist = NoHist

InitPA ==
  /\ paMounted = FALSE
  /\ paShifts = <<>>
  /\ paIsLoading = 0
  /\ paOps = {}
  /\ paFeed = <<>>
  /\ paClock = 0
  /\ paHist = NoPaHist

NoCalFetch == [phase |-> "idle", error |-> FALSE, rows |-> <<>>]

NoCalOp == [kind |-> "none", mode |-> "none", phase |-> "idle", date |-> 0, tempId |-> 0,
            currentAvail |-> NullAvail, row |-> NullAvail, data |-> NullAvail,
            error |-> FALSE, refetch |-> [ok |-> FALSE, rows |-> <<>>],
            monthStartDate |-> 0, monthEndDate |-> 0]

\* the calendar is not on the page
InitCal ==
  /\ calMounted = FALSE
  /\ calAvailability = <<>>
  /\ calIsLoading = FALSE
  /\ calFetch = NoCalFetch
  /\ calOp = NoCalOp
  /\ calFeed = <<>>
  /\ calClock = 0
  /\ selectedDate = 0
  /\ noteDialogOpen = FALSE
  /\ currentNote = ""

NoDailyOp == [phase |-> "idle", id |-> 0, patch |-> <<>>, data |-> NullShift, error |-> FALSE]

\* toast: the toast the last finished handleUpdateShift call showed; email: the
\* notification it attempted
NoDailyHist == [toast |-> "none", email |-> "none"]

\* the daily overview is not on the page
InitDaily ==
  /\ dailyMounted = FALSE
  /\ dailyShifts = <<>>
  /\ dailySelectedShift = NullShift
  /\ dailyIsEditDialogOpen = FALSE
  /\ dailyCallTime = <<>>
  /\ dailyWrapTime = <<>>
  /\ dailyIsLoading = FALSE
  /\ dailyOp = NoDailyOp
  /\ dailyFeed = <<>>
  /\ dailyClock = 0
  /\ dailyHist = NoDailyHist

\* nothing was written to the console
NoConsole == [level |-> "none", text |-> ""]

\* no sendShift...Email call is in progress
NoMail == [fn |-> "none", phase |-> "idle", to |-> NullUser, status |-> "none",
           callTime |-> NullTime, raised |-> FALSE, calls |-> 0,
           outcome |-> "none"]

\* PARealtimeSubscriptions is not on the page
InitRt ==
  /\ rtUserId = NullUser
  /\ rtFeed = <<>>
  /\ rtRefreshes = 0

\* no subscribe callback has run
InitLog ==
  /\ chanStatus = [grid |-> "none", pa |-> "none"]
  /\ console = NoConsole

\* the process has a well-formed API key; nothing was sent
InitMail ==
  /\ resendApiKey = "re_key"
  /\ mail = NoMail
  /\ outbox = <<>>

\* no row of table users for an id
NoRow == [role |-> "none", production_id |-> "none"]

\* no middleware call is in progress
NoSession == [user |-> NullUser, error |-> FALSE]
NoMw == [phase |-> "idle", pathname |-> <<>>, authUser |-> NullUser,
         userRole |-> "none", response |-> "none",
         session |-> NoSession, redirects |-> 0]

\* no server page is being rendered
NoPage == [phase |-> "idle", fn |-> "none", authUser |-> NullUser,
           production |-> "none", pas |-> {}, outcome |-> "none"]

\* no validate-invite-code request is in progress
NoInvite == [phase |-> "idle", hasCode |-> FALSE, code |-> <<>>, key |-> <<>>,
             response |-> "none", productionId |-> "none",
             client |-> [valid |-> FALSE, productionId |-> "none"]]

\* generateInviteCode has not been called
NoGen == [i |-> 0, code |-> <<>>, done |-> FALSE]

\* one PA and one PC, no production
InitSrv ==
  /\ users = [u \in {PA1, PC1} |-> [role |-> IF u = PA1 THEN "PA" ELSE "PC",
                                    production_id |-> "none"]]
  /\ productions = <<>>
  /\ mw = NoMw
  /\ page = NoPage
  /\ invite = NoInvite
  /\ gen = NoGen

InitApp == InitDb /\ InitGrid /\ InitPA /\ InitCal /\ InitDaily

\* today's month: the months are numbered from it, 1 is today.getMonth()
currentMonth == 1

\* the components that subscribe in a useEffect and remove the channel in its cleanup
Components == {"PACalendar", "PAShifts", "PCRealtimeSubscriptions"}
\* an effect's dependency array: [userId, monthStartDate, monthEndDate], [userId], [router]
NoKey == [userId |-> NullUser, month |-> 0, router |-> 0]
NoSub == [mounted |-> FALSE, key |-> NoKey, channel |-> 0]
\* nothing is mounted, the realtime client has no channel
InitSub == subs = [c \in Components |-> NoSub] /\ channels = <<>>

\* no registration is in progress
NoReg == [phase |-> "idle", role |-> "none", projectCode |-> <<>>, valid |-> FALSE,
          productionId |-> "none", user |-> NullUser, outcome |-> "none",
          redirect |-> "none", calls |-> 0]
\* nobody has an account yet
InitReg == authUsers = {} /\ reg = NoReg

\* the calendar shows the current month
InitNav == selectedMonth = currentMonth

InitExt == InitRt /\ InitLog /\ InitMail /\ InitSrv /\ InitNav /\ InitSub /\ InitReg

Init == InitDb /\ InitGrid /\ InitPA /\ InitCal /\ InitDaily /\ InitExt

\* ------------------------------------------------ grid: dialogs and inputs
\* supabase.auth.getUser().then(...): the user id arrives, the shifts channel opens
GridResolveUser ==
  /\ currentUserId = NullUser
  /\ currentUserId' = PC1
  /\ UNCHANGED <<dbVars, shifts, availability, selectedCell, isAssignDialogOpen,
                 isViewDialogOpen, isEditMode, isLoading, callTime, wrapTime, gridOp,
                 gridShiftsFeed, gridAvailFeed, tempClock, gridHist>>
  /\ UNCHANGED calVars
  /\ UNCHANGED dailyVars
  /\ UNCHANGED paVars
  /\ UNCHANGED extVars

handleCellClick(paId, date) ==
  /\ ~isAssignDialogOpen /\ ~isViewDialogOpen
  /\ isClickable(paId, date)
  /\ LET status == getAvailabilityStatus(paId, date, availability)
         shift == getShiftForCell(paId, date, shifts)
         availRecord == FindFirst(availability,
                          {a \in Range(availability) : a.user_id = paId /\ a.date = date},
                          NullAvail)
     IN /\ selectedCell' = [paId |-> paId, date |-> date, status |-> status,
                            shift |-> shift, paNote |-> availRecord.pa_note]
        /\ IF shift # NullShift
           THEN /\ callTime' = TimeForInput(shift.call_time)
                /\ wrapTime' = TimeForInput(shift.wrap_time)
                /\ isEditMode' = FALSE
                /\ isViewDialogOpen' = TRUE
                /\ UNCHANGED isAssignDialogOpen
           ELSE /\ callTime' = <<>>
                /\ wrapTime' = <<>>
                /\ isAssignDialogOpen' = TRUE
                /\ UNCHANGED <<isEditMode, isViewDialogOpen>>
  /\ UNCHANGED <<dbVars, shifts, availability, currentUserId, isLoading, gridOp,
                 gridShiftsFeed, gridAvailFeed, tempClock, gridHist>>
  /\ UNCHANGED calVars
  /\ UNCHANGED dailyVars
  /\ UNCHANGED paVars
  /\ UNCHANGED extVars

\* Cancel button / onOpenChange(false) of the assign dialog
GridCloseAssignDialog ==
  /\ isAssignDialogOpen
  /\ isAssignDialogOpen' = FALSE
  /\ selectedCell' = NullCell
  /\ callTime' = <<>>
  /\ wrapTime' = <<>>
  /\ UNCHANGED <<dbVars, shifts, availability, currentUserId, isViewDialogOpen, isEditMode,
                 isLoading, gridOp, gridShiftsFeed, gridAvailFeed, tempClock, gridHist>>
  /\ UNCHANGED calVars
  /\ UNCHANGED dailyVars
  /\ UNCHANGED paVars
  /\ UNCHANGED extVars

\* Close button / onOpenChange(false) of the view-edit dialog
GridCloseViewDialog ==
  /\ isViewDialogOpen
  /\ isViewDialogOpen' = FALSE
  /\ selectedCell' = NullCell
  /\ isEditMode' = FALSE
  /\ callTime' = <<>>
  /\ wrapTime' = <<>>
  /\ UNCHANGED <<dbVars, shifts, availability, currentUserId, isAssignDialogOpen,
                 isLoading, gridOp, gridShiftsFeed, gridAvailFeed, tempClock, gridHist>>
  /\ UNCHANGED calVars
  /\ UNCHANGED dailyVars
  /\ UNCHANGED paVars
  /\ UNCHANGED extVars

\* "Edit Shift" button
GridEditShift ==
  /\ isViewDialogOpen /\ ~isEditMode
  /\ isEditMode' = TRUE
  /\ UNCHANGED <<dbVars, shifts, availability, currentUserId, selectedCell,
                 isAssignDialogOpen, isViewDialogOpen, isLoading, callTime, wrapTime,
                 gridOp, gridShiftsFeed, gridAvailFeed, tempClock, gridHist>>
  /\ UNCHANGED calVars
  /\ UNCHANGED dailyVars
  /\ UNCHANGED paVars
  /\ UNCHANGED extVars

\* Cancel button of edit mode
GridCancelEdit ==
  /\ isViewDialogOpen /\ isEditMode
  /\ isEditMode' = FALSE
  /\ IF selectedCell.shift # NullShift
     THEN /\ callTime' = selectedCell.shift.call_time
          /\ wrapTime' = selectedCell.shift.wrap_time
     ELSE UNCHANGED <<callTime, wrapTime>>
  /\ UNCHANGED <<dbVars, shifts, availability, currentUserId, selectedCell,
                 isAssignDialogOpen, isViewDialogOpen, isLoading, gridOp,
                 gridShiftsFeed, gridAvailFeed, tempClock, gridHist>>
  /\ UNCHANGED calVars
  /\ UNCHANGED dailyVars
  /\ UNCHANGED paVars
  /\ UNCHANGED extVars

\* onChange of the call-time and wrap-time inputs
GridTypeTimes(c, w) ==
  /\ isAssignDialogOpen \/ (isViewDialogOpen /\ isEditMode)
  /\ callTime' = c
  /\ wrapTime' = w
  /\ UNCHANGED <<dbVars, shifts, availability, currentUserId, selectedCell,
                 isAssignDialogOpen, isViewDialogOpen, isEditMode, isLoading, gridOp,
                 gridShiftsFeed, gridAvailFeed, tempClock, gridHist>>
  /\ UNCHANGED calVars
  /\ UNCHANGED dailyVars
  /\ UNCHANGED paVars
  /\ UNCHANGED extVars


\* --------------------------------------------------- grid: createShift
\* the store updates of createShift, one operator per setShifts call
CreateOptimistic(prev, optimisticShift) == Append(prev, optimisticShift)
CreateReplace(prev, tempId, data) == Append(RemoveById(prev, tempId), data)
CreateRollback(prev, tempId) == RemoveById(prev, tempId)

\* createShift up to its first await: guard, optimistic apply, insert request
createShift ==
  /\ isAssignDialogOpen /\ ~isLoading
  /\ IF currentUserId = NullUser \/ selectedCell = NullCell
     THEN UNCHANGED <<shifts, isLoading, gridOp, tempClock, gridHist>>
     ELSE /\ tempClock < MaxOps
          /\ LET optimisticShift ==
                   [id |-> -(tempClock + 1), date |-> selectedCell.date,
                    assigned_pa_id |-> selectedCell.paId, assigned_by_id |-> currentUserId,
                    call_time |-> formatTimeForDB(callTime),
                    wrap_time |-> formatTimeForDB(wrapTime),
                    confirmation_status |-> "pending"]
             IN /\ shifts' = CreateOptimistic(shifts, optimisticShift)
                /\ gridOp' = [NoGridOp EXCEPT !.kind = "create", !.phase = "request",
                                              !.shift = optimisticShift, !.cell = selectedCell]
                /\ gridHist' = [NoHist EXCEPT !.kind = "create", !.pre = shifts]
          /\ tempClock' = tempClock + 1
          /\ isLoading' = TRUE
  /\ UNCHANGED <<dbVars, availability, currentUserId, selectedCell, isAssignDialogOpen,
                 isViewDialogOpen, isEditMode, callTime, wrapTime, gridShiftsFeed,
                 gridAvailFeed>>
  /\ UNCHANGED calVars
  /\ UNCHANGED dailyVars
  /\ UNCHANGED paVars
  /\ UNCHANGED extVars

\* --------------------------------------------------- grid: updateShift
UpdateOptimistic(prev, originalShift, optimisticUpdate) ==
  ReplaceById(prev, originalShift.id, optimisticUpdate)
UpdateReplace(prev, originalShift, data) == ReplaceById(prev, originalShift.id, data)
UpdateRollback(prev, originalShift) == ReplaceById(prev, originalShift.id, originalShift)

updateShift ==
  /\ isViewDialogOpen /\ isEditMode /\ ~isLoading
  /\ IF selectedCell.shift = NullShift
     THEN UNCHANGED <<shifts, isLoading, gridOp, gridHist, tempClock>>
     ELSE /\ tempClock < MaxOps
          /\ tempClock' = tempClock + 1
          /\ LET originalShift == selectedCell.shift
                 optimisticUpdate == [originalShift EXCEPT
                                        !.call_time = formatTimeForDB(callTime),
                                        !.wrap_time = formatTimeForDB(wrapTime)]
             IN /\ shifts' = UpdateOptimistic(shifts, originalShift, optimisticUpdate)
                /\ gridOp' = [NoGridOp EXCEPT !.kind = "update", !.phase = "request",
                                              !.shift = originalShift,
                                              !.update = optimisticUpdate,
                                              !.cell = selectedCell]
                /\ gridHist' = [NoHist EXCEPT !.kind = "update", !.pre = shifts]
                /\ isLoading' = TRUE
  /\ UNCHANGED <<dbVars, availability, currentUserId, selectedCell, isAssignDialogOpen,
                 isViewDialogOpen, isEditMode, callTime, wrapTime, gridShiftsFeed,
                 gridAvailFeed>>
  /\ UNCHANGED calVars
  /\ UNCHANGED dailyVars
  /\ UNCHANGED paVars
  /\ UNCHANGED extVars

\* --------------------------------------------------- grid: deleteShift
DeleteOptimistic(prev, shiftToDelete) == RemoveById(prev, shiftToDelete.id)
DeleteRollback(prev, shiftToDelete) == Append(prev, shiftToDelete)

\* a deleteShift that does not look at the answer to its prompt
DeleteReturnsEarlyUnprompted(confirmed) == selectedCell.shift = NullShift
\* the two early returns of deleteShift: no shift selected, or the prompt answered no
DeleteReturnsEarly(confirmed) == selectedCell.shift = NullShift \/ ~confirmed

\* confirmed is the answer to window.confirm
deleteShift(confirmed) ==
  /\ isViewDialogOpen /\ ~isEditMode /\ ~isLoading
  /\ IF DeleteReturnsEarly(confirmed)
     THEN /\ gridHist' = IF selectedCell.shift = NullShift THEN gridHist
                          ELSE [gridHist EXCEPT !.prompt = "no"]
          /\ UNCHANGED <<shifts, isLoading, gridOp, tempClock>>
     ELSE /\ tempClock < MaxOps
          /\ tempClock' = tempClock + 1
          /\ LET shiftToDelete == selectedCell.shift
             IN /\ shifts' = DeleteOptimistic(shifts, shiftToDelete)
                /\ gridOp' = [NoGridOp EXCEPT !.kind = "delete", !.phase = "request",
                                              !.shift = shiftToDelete, !.cell = selectedCell]
                /\ gridHist' = [NoHist EXCEPT !.kind = "delete", !.pre = shifts,
                                               !.prompt = IF confirmed THEN "yes" ELSE "no"]
                /\ isLoading' = TRUE
  /\ UNCHANGED <<dbVars, availability, currentUserId, selectedCell, isAssignDialogOpen,
                 isViewDialogOpen, isEditMode, callTime, wrapTime, gridShiftsFeed,
                 gridAvailFeed>>
  /\ UNCHANGED calVars
  /\ UNCHANGED dailyVars
  /\ UNCHANGED paVars
  /\ UNCHANGED extVars


\* ------------------------------------- grid: the persistence call executes
\* The database executes the request of the call in flight, or the call fails
\* (network, row-level security) and leaves the tables as they are.
GridDbExec(fails) ==
  /\ gridOp.phase = "request"
  /\ LET id == gridOp.shift.id
         old == DbShiftById(id)
     IN CASE fails ->
               /\ gridOp' = [gridOp EXCEPT !.phase = "response", !.error = TRUE]
               /\ UNCHANGED <<dbVars, gridShiftsFeed, paFeed, dailyFeed, rtFeed>>
          [] ~fails /\ gridOp.kind = "create" ->
               /\ writes < MaxWrites
               /\ LET data == DbInsertShift(gridOp.shift)
                  IN /\ dbShifts' = dbShifts \cup {data}
                     /\ dbNextId' = dbNextId + 1
                     /\ PublishShifts(<<Event("INSERT", data)>>)
                     /\ gridOp' = [gridOp EXCEPT !.phase = "response", !.data = data]
               /\ writes' = writes + 1
               /\ UNCHANGED dbAvail
          [] ~fails /\ gridOp.kind = "update" ->
               IF old = NullShift
               THEN \* .single() finds no row: error
                    /\ gridOp' = [gridOp EXCEPT !.phase = "response", !.error = TRUE]
                    /\ UNCHANGED <<dbVars, gridShiftsFeed, paFeed, dailyFeed, rtFeed>>
               ELSE /\ writes < MaxWrites
                    /\ LET data == DbUpdateTimes(old, gridOp.update.call_time,
                                                 gridOp.update.wrap_time)
                       IN /\ dbShifts' = (dbShifts \ {old}) \cup {data}
                          /\ PublishShifts(<<Event("UPDATE", data)>>)
                          /\ gridOp' = [gridOp EXCEPT !.phase = "response", !.data = data]
                    /\ writes' = writes + 1
                    /\ UNCHANGED <<dbAvail, dbNextId>>
          [] ~fails /\ gridOp.kind = "delete" ->
               IF old = NullShift
               THEN \* nothing matches .eq('id', id): no error, no event
                    /\ gridOp' = [gridOp EXCEPT !.phase = "response"]
                    /\ UNCHANGED <<dbVars, gridShiftsFeed, paFeed, dailyFeed, rtFeed>>
               ELSE /\ writes < MaxWrites
                    /\ dbShifts' = dbShifts \ {old}
                    /\ PublishShifts(<<Event("DELETE", old)>>)
                    /\ gridOp' = [gridOp EXCEPT !.phase = "response"]
                    /\ writes' = writes + 1
                    /\ UNCHANGED <<dbAvail, dbNextId>>
  /\ UNCHANGED <<shifts, availability, currentUserId, selectedCell, isAssignDialogOpen,
                 isViewDialogOpen, isEditMode, isLoading, callTime, wrapTime,
                 gridAvailFeed, tempClock, gridHist>>
  /\ UNCHANGED calVars
  /\ UNCHANGED dailyRest
  /\ UNCHANGED paRest
  /\ UNCHANGED extRest

\* ------------------------------------ grid: continuation after the await
\* createShift after `await insert`: replace the optimistic record and go on to
\* the email block, or the catch block's rollback
\* a response that carries an error never reaches the statements after it
NeverThrows(error) == FALSE
\* if (error) { console.error(...); throw error; } right after the awaited call
ThrowsOnError(error) == error

GridCreateComplete ==
  /\ gridOp.kind = "create" /\ gridOp.phase = "response"
  /\ IF ThrowsOnError(gridOp.error)
     THEN /\ shifts' = CreateRollback(shifts, gridOp.shift.id)
          /\ isLoading' = FALSE
          /\ gridOp' = NoGridOp
          /\ gridHist' = [gridHist EXCEPT !.toast = "error", !.pre = <<>>, !.clean = TRUE]
     ELSE /\ shifts' = CreateReplace(shifts, gridOp.shift.id, gridOp.data)
          /\ gridOp' = [gridOp EXCEPT !.phase = "email"]
          /\ UNCHANGED gridHist
          /\ UNCHANGED isLoading
  /\ UNCHANGED <<dbVars, availability, currentUserId, selectedCell, isAssignDialogOpen,
                 isViewDialogOpen, isEditMode, callTime, wrapTime, gridShiftsFeed,
                 gridAvailFeed, tempClock>>
  /\ UNCHANGED calVars
  /\ UNCHANGED dailyVars
  /\ UNCHANGED paVars
  /\ UNCHANGED extVars

\* What the email block of createShift / confirmShift / declineShift hands on:
\* its own catch logs every failure, so the outer try goes on to toast.success
EmailOutcomes == {"sent", "no_details", "non_ok", "threw"}
\* the email block without its own catch: a failure reaches the outer catch
AfterEmailBlockUncaught(outcome) == IF outcome = "sent" THEN "success" ELSE "rollback"
AfterEmailBlock(outcome) == "success"

\* createShift from the email block to the end: getUserDetails, POST /api/send-email
GridCreateEmail(outcome) ==
  /\ gridOp.kind = "create" /\ gridOp.phase = "email"
  /\ IF AfterEmailBlock(outcome) = "success"
     THEN /\ isAssignDialogOpen' = FALSE
          /\ selectedCell' = NullCell
          /\ callTime' = <<>>
          /\ wrapTime' = <<>>
          /\ gridHist' = [gridHist EXCEPT !.email = outcome, !.toast = "success",
                                          !.pre = <<>>, !.clean = TRUE]
          /\ UNCHANGED shifts
     ELSE /\ shifts' = CreateRollback(shifts, gridOp.shift.id)
          /\ gridHist' = [gridHist EXCEPT !.email = outcome, !.toast = "error",
                                          !.pre = <<>>, !.clean = TRUE]
          /\ UNCHANGED <<isAssignDialogOpen, selectedCell, callTime, wrapTime>>
  /\ isLoading' = FALSE
  /\ gridOp' = NoGridOp
  /\ UNCHANGED <<dbVars, availability, currentUserId, isViewDialogOpen, isEditMode,
                 gridShiftsFeed, gridAvailFeed, tempClock>>
  /\ UNCHANGED calVars
  /\ UNCHANGED dailyVars
  /\ UNCHANGED paVars
  /\ UNCHANGED extVars

GridUpdateComplete ==
  /\ gridOp.kind = "update" /\ gridOp.phase = "response"
  /\ IF gridOp.error
     THEN /\ shifts' = UpdateRollback(shifts, gridOp.shift)
          /\ gridHist' = [gridHist EXCEPT !.toast = "error", !.pre = <<>>, !.clean = TRUE]
          /\ UNCHANGED <<isEditMode, isViewDialogOpen, selectedCell, callTime, wrapTime>>
     ELSE /\ shifts' = UpdateReplace(shifts, gridOp.shift, gridOp.data)
          /\ gridHist' = [gridHist EXCEPT !.toast = "success", !.pre = <<>>, !.clean = TRUE]
          /\ isEditMode' = FALSE
          /\ isViewDialogOpen' = FALSE
          /\ selectedCell' = NullCell
          /\ callTime' = <<>>
          /\ wrapTime' = <<>>
  /\ isLoading' = FALSE
  /\ gridOp' = NoGridOp
  /\ UNCHANGED <<dbVars, availability, currentUserId, isAssignDialogOpen, gridShiftsFeed,
                 gridAvailFeed, tempClock>>
  /\ UNCHANGED calVars
  /\ UNCHANGED dailyVars
  /\ UNCHANGED paVars
  /\ UNCHANGED extVars

GridDeleteComplete ==
  /\ gridOp.kind = "delete" /\ gridOp.phase = "response"
  /\ IF gridOp.error
     THEN /\ shifts' = DeleteRollback(shifts, gridOp.shift)
          /\ gridHist' = [gridHist EXCEPT !.toast = "error", !.pre = <<>>, !.clean = TRUE]
          /\ UNCHANGED <<isEditMode, isViewDialogOpen, selectedCell, callTime, wrapTime>>
     ELSE /\ gridHist' = [gridHist EXCEPT !.toast = "success", !.pre = <<>>, !.clean = TRUE]
          /\ isViewDialogOpen' = FALSE
          /\ selectedCell' = NullCell
          /\ isEditMode' = FALSE
          /\ callTime' = <<>>
          /\ wrapTime' = <<>>
          /\ UNCHANGED shifts
  /\ isLoading' = FALSE
  /\ gridOp' = NoGridOp
  /\ UNCHANGED <<dbVars, availability, currentUserId, isAssignDialogOpen, gridShiftsFeed,
                 gridAvailFeed, tempClock>>
  /\ UNCHANGED calVars
  /\ UNCHANGED dailyVars
  /\ UNCHANGED paVars
  /\ UNCHANGED extVars

\* ------------------------------------------------ grid: change-feed delivery
GridShiftsDeliver ==
  /\ gridShiftsFeed # <<>>
  /\ shifts' = GridShiftsMerge(shifts, Head(gridShiftsFeed))
  /\ gridShiftsFeed' = Tail(gridShiftsFeed)
  /\ gridHist' = IF shifts' # shifts /\ gridOp.kind # "none"
                  THEN [gridHist EXCEPT !.clean = FALSE] ELSE gridHist
  /\ UNCHANGED <<dbVars, availability, currentUserId, selectedCell, isAssignDialogOpen,
                 isViewDialogOpen, isEditMode, isLoading, callTime, wrapTime, gridOp,
                 gridAvailFeed, tempClock>>
  /\ UNCHANGED calVars
  /\ UNCHANGED dailyVars
  /\ UNCHANGED paVars
  /\ UNCHANGED extVars

\* a handler that takes the shifts of a deleted availability record's (user, date)
\* out of the shift collection
ShiftsCascadingAvailabilityDelete(prev, ev) ==
  IF ev.type = "DELETE"
  THEN SelectSeq(prev, LAMBDA x : ~(x.assigned_pa_id = ev.row.user_id /\ x.date = ev.row.date))
  ELSE prev

\* the 'availability-changes' handler calls setAvailability only: shifts stays
ShiftsAfterAvailabilityEvent(prev, ev) == prev

GridAvailDeliver ==
  /\ gridAvailFeed # <<>>
  /\ availability' = GridAvailMerge(availability, Head(gridAvailFeed))
  /\ shifts' = ShiftsAfterAvailabilityEvent(shifts, Head(gridAvailFeed))
  /\ gridAvailFeed' = Tail(gridAvailFeed)
  /\ UNCHANGED <<dbVars, currentUserId, selectedCell, isAssignDialogOpen,
                 isViewDialogOpen, isEditMode, isLoading, callTime, wrapTime, gridOp,
                 gridShiftsFeed, tempClock, gridHist>>
  /\ UNCHANGED calVars
  /\ UNCHANGED dailyVars
  /\ UNCHANGED paVars
  /\ UNCHANGED extVars


\* ------------------------------------------------ PAShifts: change-feed merge
\* PAShifts 'pa-shifts-changes' handler
PaShiftsMerge(prev, ev) ==
  CASE ev.type = "INSERT" ->
         IF SomeId(prev, ev.row.id) THEN ReplaceById(prev, ev.row.id, ev.row)
         ELSE Append(prev, ev.row)
    [] ev.type = "UPDATE" ->
         IF ~SomeId(prev, ev.row.id) THEN Append(prev, ev.row)
         ELSE ReplaceById(prev, ev.row.id, ev.row)
    [] ev.type = "DELETE" -> RemoveById(prev, ev.row.id)

PaDeliver ==
  /\ paFeed # <<>>
  /\ paShifts' = PaShiftsMerge(paShifts, Head(paFeed))
  /\ paFeed' = Tail(paFeed)
  /\ UNCHANGED <<dbVars, gridVars, paMounted, paIsLoading, paOps, paClock, paHist>>
  /\ UNCHANGED calVars
  /\ UNCHANGED dailyVars
  /\ UNCHANGED extVars

\* ------------------------------------- PAShifts: confirmShift / declineShift
NoPaOp == [n |-> 0, kind |-> "none", id |-> 0, previousShift |-> NullShift,
           phase |-> "idle", error |-> FALSE, data |-> NullShift]

\* the status a call writes
PaTarget(kind) == IF kind = "confirm" THEN "confirmed" ELSE "declined"

\* prev.map((shift) => shift.id === shiftId ? { ...shift, confirmation_status } : shift)
PaOptimistic(prev, shiftId, st) ==
  [i \in DOMAIN prev |-> IF prev[i].id = shiftId
                         THEN [prev[i] EXCEPT !.confirmation_status = st] ELSE prev[i]]

\* a rollback that matches on the PA instead of the shift id
PaRollbackByOwner(prev, shiftId, previousShift) ==
  IF previousShift = NullShift THEN prev
  ELSE [i \in DOMAIN prev |-> IF prev[i].assigned_pa_id = previousShift.assigned_pa_id
                              THEN previousShift ELSE prev[i]]
\* the catch block: if (previousShift) prev.map((shift) => shift.id === shiftId ? previousShift : shift)
PaRollback(prev, shiftId, previousShift) ==
  IF previousShift = NullShift THEN prev ELSE ReplaceById(prev, shiftId, previousShift)

\* the Confirm / Decline buttons of a card: rendered for a pending shift,
\* disabled while isLoading === shift.id
PaCanAct(shiftId) ==
  /\ paMounted
  /\ \E i \in DOMAIN paShifts : /\ paShifts[i].id = shiftId
                                /\ paShifts[i].confirmation_status = "pending"
  /\ paIsLoading # shiftId

\* either handler up to its await: setIsLoading, snapshot, optimistic update, request
PaStart(kind, shiftId) ==
  /\ paClock < MaxOps
  /\ paClock' = paClock + 1
  /\ paIsLoading' = shiftId
  /\ LET previousShift ==
           FindFirst(paShifts, {x \in Range(paShifts) : x.id = shiftId}, NullShift)
     IN paOps' = paOps \cup {[NoPaOp EXCEPT !.n = paClock + 1, !.kind = kind, !.id = shiftId,
                                            !.previousShift = previousShift,
                                            !.phase = "request"]}
  /\ paShifts' = PaOptimistic(paShifts, shiftId, PaTarget(kind))
  /\ UNCHANGED <<paMounted, paFeed, paHist>>

confirmShift(shiftId) ==
  /\ PaCanAct(shiftId)
  /\ PaStart("confirm", shiftId)
  /\ UNCHANGED <<dbVars, gridVars>>
  /\ UNCHANGED calVars
  /\ UNCHANGED dailyVars
  /\ UNCHANGED extVars

\* confirmed is the answer to window.confirm
declineShift(shiftId, confirmed) ==
  /\ PaCanAct(shiftId)
  /\ IF confirmed
     THEN PaStart("decline", shiftId)
     ELSE /\ paHist' = [paHist EXCEPT !.prompt = "no"]
          /\ UNCHANGED <<paMounted, paShifts, paIsLoading, paOps, paFeed, paClock>>
  /\ UNCHANGED <<dbVars, gridVars>>
  /\ UNCHANGED calVars
  /\ UNCHANGED dailyVars
  /\ UNCHANGED extVars

\* .update({ confirmation_status }).eq('id', shiftId).select().single() executes, or
\* the call fails and leaves the table as it is
PaDbExec(op, fails) ==
  /\ op \in paOps /\ op.phase = "request"
  /\ LET old == DbShiftById(op.id)
     IN IF fails \/ old = NullShift
        THEN /\ paOps' = (paOps \ {op}) \cup {[op EXCEPT !.phase = "response", !.error = TRUE]}
             /\ UNCHANGED <<dbVars, gridShiftsFeed, paFeed, dailyFeed, rtFeed>>
        ELSE /\ writes < MaxWrites
             /\ writes' = writes + 1
             /\ LET data == DbUpdateStatus(old, PaTarget(op.kind))
                IN /\ dbShifts' = (dbShifts \ {old}) \cup {data}
                   /\ PublishShifts(<<Event("UPDATE", data)>>)
                   /\ paOps' = (paOps \ {op}) \cup {[op EXCEPT !.phase = "response",
                                                               !.data = data]}
             /\ UNCHANGED <<dbAvail, dbNextId>>
  /\ UNCHANGED <<shifts, availability, currentUserId, selectedCell, isAssignDialogOpen,
                 isViewDialogOpen, isEditMode, isLoading, callTime, wrapTime, gridOp,
                 gridAvailFeed, tempClock, gridHist>>
  /\ UNCHANGED <<paMounted, paShifts, paIsLoading, paClock, paHist>>
  /\ UNCHANGED calVars
  /\ UNCHANGED dailyRest
  /\ UNCHANGED extRest

\* the data of sendShiftConfirmationEmail: pcEmail is the email of data.assigned_by_id,
\* confirmationStatus the literal of the handler
PaNotification(op) ==
  [to |-> op.data.assigned_by_id, confirmationStatus |-> PaTarget(op.kind)]

\* the end of either handler: toast, and the finally block's setIsLoading(null);
\* sendShiftConfirmationEmail was called unless the block was skipped or the
\* details of the PA or the PC could not be fetched
PaFinish(op, toast, email) ==
  /\ paOps' = paOps \ {op}
  /\ paIsLoading' = 0
  /\ paHist' = [toast |-> toast, email |-> email, id |-> op.id,
                concurrent |-> {o.id : o \in paOps \ {op}},
                notify |-> IF email \in {"none", "no_details"} THEN NoNotify
                           ELSE PaNotification(op),
                prompt |-> "none"]

\* after the await of the update: the catch block, or on to the email block
PaComplete(op) ==
  /\ op \in paOps /\ op.phase = "response"
  /\ IF ThrowsOnError(op.error)
     THEN /\ paShifts' = PaRollback(paShifts, op.id, op.previousShift)
          /\ PaFinish(op, "error", "none")
     ELSE IF op.data.assigned_by_id # NullUser
     THEN /\ paOps' = (paOps \ {op}) \cup {[op EXCEPT !.phase = "email"]}
          /\ UNCHANGED <<paShifts, paIsLoading, paHist>>
     ELSE /\ PaFinish(op, "success", "none")
          /\ UNCHANGED paShifts
  /\ UNCHANGED <<dbVars, gridVars, paMounted, paFeed, paClock>>
  /\ UNCHANGED calVars
  /\ UNCHANGED dailyVars
  /\ UNCHANGED extVars

\* the email block: getUserDetails twice, sendShiftConfirmationEmail
PaEmail(op, outcome) ==
  /\ op \in paOps /\ op.phase = "email"
  /\ IF AfterEmailBlock(outcome) = "success"
     THEN /\ PaFinish(op, "success", outcome)
          /\ UNCHANGED paShifts
     ELSE /\ paShifts' = PaRollback(paShifts, op.id, op.previousShift)
          /\ PaFinish(op, "error", outcome)
  /\ UNCHANGED <<dbVars, gridVars, paMounted, paFeed, paClock>>
  /\ UNCHANGED calVars
  /\ UNCHANGED dailyVars
  /\ UNCHANGED extVars


\* a cycle that leaves 'preferred' out: available -> not set
cycleStatusSkippingPreferred(current) ==
  IF current = NullStatus THEN "unavailable"
  ELSE IF current = "unavailable" THEN "available"
  ELSE NullStatus

\* cycleStatus of the PA calendar
cycleStatus(current) ==
  IF current = NullStatus THEN "unavailable"
  ELSE IF current = "unavailable" THEN "available"
  ELSE IF current = "available" THEN "preferred"
  ELSE NullStatus

\* --------------------------- grid: writes of the PA's own sessions, as the
\* database and the grid's channels see them
\* a PA session's confirmShift / declineShift update reaches the database
RemoteShiftStatus(id, st) ==
  /\ writes < MaxWrites
  /\ LET old == DbShiftById(id)
     IN /\ old # NullShift
        /\ old.confirmation_status = "pending"
        /\ LET data == DbUpdateStatus(old, st)
           IN /\ dbShifts' = (dbShifts \ {old}) \cup {data}
              /\ PublishShifts(<<Event("UPDATE", data)>>)
  /\ writes' = writes + 1
  /\ UNCHANGED <<dbAvail, dbNextId, shifts, availability, currentUserId, selectedCell,
                 isAssignDialogOpen, isViewDialogOpen, isEditMode, isLoading, callTime,
                 wrapTime, gridOp, gridAvailFeed, tempClock, gridHist>>
  /\ UNCHANGED calVars
  /\ UNCHANGED dailyRest
  /\ UNCHANGED paRest
  /\ UNCHANGED extRest

\* a PA session's handleDateClick insert / update / delete reaches the database;
\* userId is the PA of that session
RemoteUserDateClick(userId, date) ==
  /\ writes < MaxWrites
  /\ LET old == DbAvailFor(userId, date)
         newStatus == cycleStatus(old.status)
     IN CASE newStatus = NullStatus ->
               /\ dbAvail' = dbAvail \ {old}
               /\ PublishAvail(<<Event("DELETE", old)>>)
               /\ UNCHANGED dbNextId
          [] newStatus # NullStatus /\ old # NullAvail ->
               /\ dbAvail' = (dbAvail \ {old}) \cup {[old EXCEPT !.status = newStatus]}
               /\ PublishAvail(<<Event("UPDATE", [old EXCEPT !.status = newStatus])>>)
               /\ UNCHANGED dbNextId
          [] newStatus # NullStatus /\ old = NullAvail ->
               LET data == [id |-> dbNextId, user_id |-> userId, date |-> date,
                            status |-> newStatus, pa_note |-> NullNote]
               IN /\ dbAvail' = dbAvail \cup {data}
                  /\ PublishAvail(<<Event("INSERT", data)>>)
                  /\ dbNextId' = dbNextId + 1
  /\ writes' = writes + 1
  /\ UNCHANGED <<dbShifts, shifts, availability, currentUserId, selectedCell,
                 isAssignDialogOpen, isViewDialogOpen, isEditMode, isLoading, callTime,
                 wrapTime, gridOp, gridShiftsFeed, tempClock, gridHist>>
  /\ UNCHANGED <<paVars, calRest, dailyVars>>
  /\ UNCHANGED extRest

\* the PA's own sessions
RemoteDateClick(date) == RemoteUserDateClick(PA1, date)

\* ------------------------------------------------------ the grid's behaviour
Next ==
  \/ GridResolveUser
  \/ \E d \in Dates : handleCellClick(PA1, d)
  \/ GridCloseAssignDialog
  \/ GridCloseViewDialog
  \/ GridEditShift
  \/ GridCancelEdit
  \/ \E t \in UITimePairs : GridTypeTimes(t[1], t[2])
  \/ createShift
  \/ updateShift
  \/ \E confirmed \in BOOLEAN : deleteShift(confirmed)
  \/ \E fails \in BOOLEAN : GridDbExec(fails)
  \/ GridCreateComplete
  \/ \E outcome \in EmailOutcomes : GridCreateEmail(outcome)
  \/ GridUpdateComplete
  \/ GridDeleteComplete
  \/ GridShiftsDeliver
  \/ GridAvailDeliver
  \/ \E id \in {r.id : r \in dbShifts}, st \in {"confirmed", "declined"} :
       RemoteShiftStatus(id, st)
  \/ \E d \in Dates : RemoteDateClick(d)

Spec == Init /\ [][Next]_vars

\* ---------------------------------------------- the PA's shift list alone
InitShift2 ==
  [id |-> 3, date |-> 2, assigned_pa_id |-> PA1, assigned_by_id |-> PC1,
   call_time |-> NullTime, wrap_time |-> NullTime, confirmation_status |-> "pending"]

\* the list as the PA's page fetched it: .eq('assigned_pa_id', id).order('date')
InitPAMounted ==
  /\ paMounted = TRUE
  /\ paShifts = RowsByDate({r \in dbShifts : r.assigned_pa_id = PA1})
  /\ paIsLoading = 0
  /\ paOps = {}
  /\ paFeed = <<>>
  /\ paClock = 0
  /\ paHist = NoPaHist

\* two pending shifts are assigned to the PA
InitPAShifts ==
  /\ dbAvail = InitAvail
  /\ dbShifts = {InitShift, InitShift2}
  /\ dbNextId = 4
  /\ writes = 0
  /\ InitGrid
  /\ InitExt
  /\ InitPAMounted
  /\ InitCal
  /\ InitDaily

ShiftIds == {r.id : r \in dbShifts} \cup {paShifts[i].id : i \in DOMAIN paShifts}

\* the list's own actions, and the same PA answering from another session
NextPAShifts ==
  \/ \E id \in ShiftIds : confirmShift(id)
  \/ \E id \in ShiftIds, confirmed \in BOOLEAN : declineShift(id, confirmed)
  \/ \E op \in paOps, fails \in BOOLEAN : PaDbExec(op, fails)
  \/ \E op \in paOps : PaComplete(op)
  \/ \E op \in paOps, outcome \in EmailOutcomes : PaEmail(op, outcome)
  \/ PaDeliver
  \/ \E id \in ShiftIds, st \in {"confirmed", "declined"} : RemoteShiftStatus(id, st)

SpecPAShifts == InitPAShifts /\ [][NextPAShifts]_vars

\* ------------------------------------ the assignment workflow: the PC grid
\* assigns on the open day, the PA's list receives the shift and answers
InitFlow ==
  /\ dbAvail = InitAvail
  /\ dbShifts = {}
  /\ dbNextId = 3
  /\ writes = 0
  /\ InitGrid
  /\ InitExt
  /\ InitPAMounted
  /\ InitCal
  /\ InitDaily

NextFlow ==
  \/ GridResolveUser
  \/ \E d \in Dates : handleCellClick(PA1, d)
  \/ GridCloseAssignDialog
  \/ GridCloseViewDialog
  \/ \E t \in UITimePairs : GridTypeTimes(t[1], t[2])
  \/ createShift
  \/ \E fails \in BOOLEAN : GridDbExec(fails)
  \/ GridCreateComplete
  \/ \E outcome \in EmailOutcomes : GridCreateEmail(outcome)
  \/ GridShiftsDeliver
  \/ \E id \in ShiftIds : confirmShift(id)
  \/ \E id \in ShiftIds, confirmed \in BOOLEAN : declineShift(id, confirmed)
  \/ \E op \in paOps, fails \in BOOLEAN : PaDbExec(op, fails)
  \/ \E op \in paOps : PaComplete(op)
  \/ \E op \in paOps, outcome \in EmailOutcomes : PaEmail(op, outcome)
  \/ PaDeliver

SpecFlow == InitFlow /\ [][NextFlow]_vars

\* ------------------- the two destructive actions: the PC removes the assignment
\* on the grid, the PA declines it on the list
InitDestructive ==
  /\ dbAvail = InitAvail
  /\ dbShifts = {InitShift}
  /\ dbNextId = 3
  /\ writes = 0
  /\ InitGrid
  /\ InitExt
  /\ InitPAMounted
  /\ InitCal
  /\ InitDaily

NextDestructive ==
  \/ GridResolveUser
  \/ \E d \in Dates : handleCellClick(PA1, d)
  \/ GridCloseViewDialog
  \/ \E confirmed \in BOOLEAN : deleteShift(confirmed)
  \/ \E fails \in BOOLEAN : GridDbExec(fails)
  \/ GridDeleteComplete
  \/ GridShiftsDeliver
  \/ \E id \in ShiftIds, confirmed \in BOOLEAN : declineShift(id, confirmed)
  \/ \E op \in paOps, fails \in BOOLEAN : PaDbExec(op, fails)
  \/ \E op \in paOps : PaComplete(op)
  \/ \E op \in paOps, outcome \in EmailOutcomes : PaEmail(op, outcome)
  \/ PaDeliver

SpecDestructive == InitDestructive /\ [][NextDestructive]_vars

\* ============================================================ PACalendar
\* monthStartDate / monthEndDate of the selected month, as day numbers
\* (a month of the model has one day, the day with the month's number)
monthStartDate == selectedMonth
monthEndDate == selectedMonth

\* changedDate >= monthStartDate && changedDate <= monthEndDate
InWindow(date) == date >= monthStartDate /\ date <= monthEndDate

\* getAvailabilityForDate(date, availability)
getAvailabilityForDate(date, avail) ==
  FindFirst(avail, {a \in Range(avail) : a.date = date}, NullAvail)

\* .from('availability').select('*').eq('user_id', userId).gte('date', monthStartDate)
\* .lte('date', monthEndDate).order('date')
CalSelectIn(userId, first, last) ==
  RowsByDate({r \in dbAvail : r.user_id = userId /\ r.date >= first /\ r.date <= last})
CalSelect(userId) == CalSelectIn(userId, monthStartDate, monthEndDate)

\* PACalendar 'pa-availability-changes' handler
CalAvailMerge(prev, ev) ==
  IF ~InWindow(ev.row.date) THEN prev
  ELSE CASE ev.type = "INSERT" -> Append(prev, ev.row)
         [] ev.type = "UPDATE" -> ReplaceById(prev, ev.row.id, ev.row)
         [] ev.type = "DELETE" -> RemoveById(prev, ev.row.id)

\* currentNote || null, and pa_note || ''
NoteForDB(note) == IF note = "" THEN NullNote ELSE note
NoteForInput(paNote) == IF paNote = NullNote THEN "" ELSE paNote

calUI == <<selectedDate, noteDialogOpen, currentNote>>

\* --------------------------------------------- calendar: the month fetch
\* the fetch effect's select executes
CalFetchExec(fails) ==
  /\ calFetch.phase = "request"
  /\ calFetch' = [phase |-> "response", error |-> fails,
                  rows |-> IF fails THEN <<>> ELSE CalSelect(PA1)]
  /\ UNCHANGED <<dbVars, gridVars, paVars, dailyVars, calMounted, calAvailability, calIsLoading, calOp,
                 calFeed, calClock, calUI>>
  /\ UNCHANGED extVars

\* setAvailability(data || []), or the catch block's toast
CalFetchComplete ==
  /\ calFetch.phase = "response"
  /\ calAvailability' = IF calFetch.error THEN calAvailability ELSE calFetch.rows
  /\ calFetch' = NoCalFetch
  /\ UNCHANGED <<dbVars, gridVars, paVars, dailyVars, calMounted, calIsLoading, calOp, calFeed,
                 calClock, calUI>>
  /\ UNCHANGED extVars

\* ------------------------------------------- calendar: change-feed delivery
CalDeliver ==
  /\ calFeed # <<>>
  /\ calAvailability' = CalAvailMerge(calAvailability, Head(calFeed))
  /\ calFeed' = Tail(calFeed)
  /\ UNCHANGED <<dbVars, gridVars, paVars, dailyVars, calMounted, calIsLoading, calFetch, calOp,
                 calClock, calUI>>
  /\ UNCHANGED extVars

\* --------------------------------------------- calendar: handleDateClick
\* the optimistic setAvailability of handleDateClick and saveNote
CalOptimisticRemove(prev, currentAvail) == RemoveById(prev, currentAvail.id)
CalOptimisticUpdate(prev, currentAvail, field, value) ==
  [i \in DOMAIN prev |-> IF prev[i].id = currentAvail.id
                         THEN [prev[i] EXCEPT ![field] = value] ELSE prev[i]]
CalOptimisticCreate(prev, optimistic) == Append(prev, optimistic)
\* prev.filter((a) => a.id !== tempId).concat(data)
CalReplace(prev, tempId, data) == Append(RemoveById(prev, tempId), data)

\* handleDateClick up to its await; the date buttons are those of the selected
\* month, rendered once the month fetch is over, disabled while isLoading
handleDateClick(date) ==
  /\ calMounted /\ calFetch.phase = "idle" /\ ~calIsLoading /\ ~noteDialogOpen
  /\ InWindow(date)
  /\ calClock < MaxOps
  /\ calClock' = calClock + 1
  /\ calIsLoading' = TRUE
  /\ LET currentAvail == getAvailabilityForDate(date, calAvailability)
         newStatus == cycleStatus(currentAvail.status)
         tempId == -(calClock + 1)
         optimistic == [id |-> tempId, user_id |-> PA1, date |-> date,
                        status |-> newStatus, pa_note |-> NullNote]
         op == [NoCalOp EXCEPT !.kind = "click", !.phase = "request", !.date = date,
                               !.tempId = tempId, !.currentAvail = currentAvail,
                               !.monthStartDate = monthStartDate,
                               !.monthEndDate = monthEndDate]
     IN CASE newStatus = NullStatus ->
               /\ calAvailability' = CalOptimisticRemove(calAvailability, currentAvail)
               /\ calOp' = [op EXCEPT !.mode = "delete"]
          [] newStatus # NullStatus /\ currentAvail # NullAvail ->
               /\ calAvailability' =
                    CalOptimisticUpdate(calAvailability, currentAvail, "status", newStatus)
               /\ calOp' = [op EXCEPT !.mode = "update",
                                      !.row = [currentAvail EXCEPT !.status = newStatus]]
          [] newStatus # NullStatus /\ currentAvail = NullAvail ->
               /\ calAvailability' = CalOptimisticCreate(calAvailability, optimistic)
               /\ calOp' = [op EXCEPT !.mode = "insert", !.row = optimistic]
  /\ UNCHANGED <<dbVars, gridVars, paVars, dailyVars, calMounted, calFetch, calFeed, calUI>>
  /\ UNCHANGED extVars

\* ------------------------------------------------- calendar: the note dialog
handleNoteClick(date) ==
  /\ calMounted /\ calFetch.phase = "idle" /\ ~calIsLoading /\ ~noteDialogOpen
  /\ InWindow(date)
  /\ selectedDate' = date
  /\ currentNote' = NoteForInput(getAvailabilityForDate(date, calAvailability).pa_note)
  /\ noteDialogOpen' = TRUE
  /\ UNCHANGED <<dbVars, gridVars, paVars, dailyVars, calMounted, calAvailability, calIsLoading,
                 calFetch, calOp, calFeed, calClock>>
  /\ UNCHANGED extVars

\* onChange of the note textarea
CalTypeNote(note) ==
  /\ noteDialogOpen
  /\ currentNote' = note
  /\ UNCHANGED <<dbVars, gridVars, paVars, dailyVars, calMounted, calAvailability, calIsLoading,
                 calFetch, calOp, calFeed, calClock, selectedDate, noteDialogOpen>>
  /\ UNCHANGED extVars

\* Cancel button of the note dialog
CalCancelNote ==
  /\ noteDialogOpen
  /\ noteDialogOpen' = FALSE
  /\ selectedDate' = 0
  /\ currentNote' = ""
  /\ UNCHANGED <<dbVars, gridVars, paVars, dailyVars, calMounted, calAvailability, calIsLoading,
                 calFetch, calOp, calFeed, calClock>>
  /\ UNCHANGED extVars

\* onOpenChange={setNoteDialogOpen}: the dialog is dismissed
CalDismissNote ==
  /\ noteDialogOpen
  /\ noteDialogOpen' = FALSE
  /\ UNCHANGED <<dbVars, gridVars, paVars, dailyVars, calMounted, calAvailability, calIsLoading,
                 calFetch, calOp, calFeed, calClock, selectedDate, currentNote>>
  /\ UNCHANGED extVars

\* saveNote up to its await
saveNote ==
  /\ calMounted /\ noteDialogOpen /\ ~calIsLoading
  /\ IF selectedDate = 0
     THEN UNCHANGED <<calAvailability, calIsLoading, calOp, calClock>>
     ELSE /\ calClock < MaxOps
          /\ calClock' = calClock + 1
          /\ calIsLoading' = TRUE
          /\ LET currentAvail == getAvailabilityForDate(selectedDate, calAvailability)
                 tempId == -(calClock + 1)
                 optimistic == [id |-> tempId, user_id |-> PA1, date |-> selectedDate,
                                status |-> "available", pa_note |-> NoteForDB(currentNote)]
                 op == [NoCalOp EXCEPT !.kind = "note", !.phase = "request",
                                       !.date = selectedDate, !.tempId = tempId,
                                       !.currentAvail = currentAvail,
                                       !.monthStartDate = monthStartDate,
                                       !.monthEndDate = monthEndDate]
             IN IF currentAvail # NullAvail
                THEN /\ calAvailability' =
                          CalOptimisticUpdate(calAvailability, currentAvail, "pa_note",
                                              NoteForDB(currentNote))
                     /\ calOp' = [op EXCEPT !.mode = "update",
                                            !.row = [currentAvail EXCEPT
                                                       !.pa_note = NoteForDB(currentNote)]]
                ELSE /\ calAvailability' = CalOptimisticCreate(calAvailability, optimistic)
                     /\ calOp' = [op EXCEPT !.mode = "insert", !.row = optimistic]
  /\ UNCHANGED <<dbVars, gridVars, paVars, dailyVars, calMounted, calFetch, calFeed, calUI>>
  /\ UNCHANGED extVars

\* --------------------------------- calendar: the persistence call executes
DbAvailById(id) == FindFirst(RowsToSeq(dbAvail), {r \in dbAvail : r.id = id}, NullAvail)

\* delete().eq('id'), update(patch).eq('id') or insert(row).select().single() executes,
\* or the call fails and leaves the table as it is.  delete and update of an id
\* that no row has (a row that is gone, a temp id) match nothing and answer
\* without error.
CalDbExec(fails) ==
  /\ calOp.phase = "request"
  /\ LET id == calOp.currentAvail.id
         old == DbAvailById(id)
         patched == [old EXCEPT !.status = calOp.row.status, !.pa_note = calOp.row.pa_note]
         data == [calOp.row EXCEPT !.id = dbNextId]
     IN CASE fails ->
               /\ calOp' = [calOp EXCEPT !.phase = "response", !.error = TRUE]
               /\ UNCHANGED <<dbVars, gridAvailFeed, calFeed, rtFeed>>
          [] ~fails /\ calOp.mode # "insert" /\ old = NullAvail ->
               /\ calOp' = [calOp EXCEPT !.phase = "response"]
               /\ UNCHANGED <<dbVars, gridAvailFeed, calFeed, rtFeed>>
          [] ~fails /\ calOp.mode = "delete" /\ old # NullAvail ->
               /\ writes < MaxWrites
               /\ dbAvail' = dbAvail \ {old}
               /\ PublishAvail(<<Event("DELETE", old)>>)
               /\ calOp' = [calOp EXCEPT !.phase = "response"]
               /\ writes' = writes + 1
               /\ UNCHANGED <<dbShifts, dbNextId>>
          [] ~fails /\ calOp.mode = "update" /\ old # NullAvail ->
               /\ writes < MaxWrites
               /\ dbAvail' = (dbAvail \ {old}) \cup {patched}
               /\ PublishAvail(<<Event("UPDATE", patched)>>)
               /\ calOp' = [calOp EXCEPT !.phase = "response"]
               /\ writes' = writes + 1
               /\ UNCHANGED <<dbShifts, dbNextId>>
          [] ~fails /\ calOp.mode = "insert" ->
               /\ writes < MaxWrites
               /\ dbAvail' = dbAvail \cup {data}
               /\ dbNextId' = dbNextId + 1
               /\ PublishAvail(<<Event("INSERT", data)>>)
               /\ calOp' = [calOp EXCEPT !.phase = "response", !.data = data]
               /\ writes' = writes + 1
               /\ UNCHANGED dbShifts
  /\ UNCHANGED <<shifts, availability, currentUserId, selectedCell, isAssignDialogOpen,
                 isViewDialogOpen, isEditMode, isLoading, callTime, wrapTime, gridOp,
                 gridShiftsFeed, tempClock, gridHist>>
  /\ UNCHANGED <<paVars, calMounted, calAvailability, calIsLoading, calFetch, calClock, calUI>>
  /\ UNCHANGED dailyVars
  /\ UNCHANGED extRest

\* ------------------------------- calendar: continuation after the await
\* success: replace the optimistic record of an insert, toast, saveNote closes its
\* dialog, finally setIsLoading(false); error: the catch block starts its re-fetch
CalComplete ==
  /\ calOp.phase = "response"
  /\ IF calOp.error
     THEN /\ calOp' = [calOp EXCEPT !.phase = "refetch"]
          /\ UNCHANGED <<calAvailability, calIsLoading, calUI>>
     ELSE /\ calAvailability' = IF calOp.mode = "insert"
                                THEN CalReplace(calAvailability, calOp.tempId, calOp.data)
                                ELSE calAvailability
          /\ IF calOp.kind = "note"
             THEN /\ noteDialogOpen' = FALSE
                  /\ selectedDate' = 0
                  /\ currentNote' = ""
             ELSE UNCHANGED calUI
          /\ calIsLoading' = FALSE
          /\ calOp' = NoCalOp
  /\ UNCHANGED <<dbVars, gridVars, paVars, dailyVars, calMounted, calFetch, calFeed, calClock>>
  /\ UNCHANGED extVars

\* the catch block's select executes, with the monthStartDate and monthEndDate
\* of the render the call was made in; on error its data is null
CalRefetchExec(fails) ==
  /\ calOp.phase = "refetch"
  /\ calOp' = [calOp EXCEPT !.phase = "refetched",
                            !.refetch = [ok |-> ~fails,
                                         rows |-> IF fails THEN <<>>
                                                  ELSE CalSelectIn(PA1, calOp.monthStartDate,
                                                                   calOp.monthEndDate)]]
  /\ UNCHANGED <<dbVars, gridVars, paVars, dailyVars, calMounted, calAvailability, calIsLoading,
                 calFetch, calFeed, calClock, calUI>>
  /\ UNCHANGED extVars

\* if (data) setAvailability(data); toast.error; finally setIsLoading(false)
CalRefetchComplete ==
  /\ calOp.phase = "refetched"
  /\ calAvailability' = IF calOp.refetch.ok THEN calOp.refetch.rows ELSE calAvailability
  /\ calIsLoading' = FALSE
  /\ calOp' = NoCalOp
  /\ UNCHANGED <<dbVars, gridVars, paVars, dailyVars, calMounted, calFetch, calFeed, calClock, calUI>>
  /\ UNCHANGED extVars

\* ------------------------------------------------ the calendar's behaviour
\* the calendar after its first render: empty, its month fetch on the way, its
\* channel subscribed; the PA's day is not set or preferred
InitCalendar ==
  /\ dbAvail \in {{}, InitAvail}
  /\ dbShifts = {}
  /\ dbNextId = 3
  /\ writes = 0
  /\ InitGrid
  /\ InitExt
  /\ InitPA
  /\ calMounted = TRUE
  /\ calAvailability = <<>>
  /\ calIsLoading = FALSE
  /\ calFetch = [NoCalFetch EXCEPT !.phase = "request"]
  /\ calOp = NoCalOp
  /\ calFeed = <<>>
  /\ calClock = 0
  /\ selectedDate = 0
  /\ noteDialogOpen = FALSE
  /\ currentNote = ""
  /\ InitDaily

NextCalendar ==
  \/ \E fails \in BOOLEAN : CalFetchExec(fails)
  \/ CalFetchComplete
  \/ CalDeliver
  \/ \E d \in Dates : handleDateClick(d)
  \/ \E d \in Dates : handleNoteClick(d)
  \/ \E note \in UINotes : CalTypeNote(note)
  \/ CalCancelNote
  \/ CalDismissNote
  \/ saveNote
  \/ \E fails \in BOOLEAN : CalDbExec(fails)
  \/ CalComplete
  \/ \E fails \in BOOLEAN : CalRefetchExec(fails)
  \/ CalRefetchComplete
  \/ \E d \in Dates : RemoteDateClick(d)

SpecCalendar == InitCalendar /\ [][NextCalendar]_vars

\* DailyOverviewClient 'daily-overview-shifts-changes' handler
DailyShiftsMerge(prev, ev) ==
  CASE ev.type = "INSERT" ->
         IF SomeId(prev, ev.row.id) THEN ReplaceById(prev, ev.row.id, ev.row)
         ELSE Append(prev, ev.row)
    [] ev.type = "UPDATE" -> ReplaceById(prev, ev.row.id, ev.row)
    [] ev.type = "DELETE" -> RemoveById(prev, ev.row.id)

\* ===================================================== DailyOverviewClient
\* the PAs of the PC's production, as the page loaded them
LoadedPAs == {PA1}

\* shifts.filter((shift) => shift.date === selectedDate)
shiftsForDate(date) == SelectSeq(dailyShifts, LAMBDA x : x.date = date)
\* the shifts of the date whose PA pas.find(...) finds: one card each
shiftsWithPAs(date) == SelectSeq(shiftsForDate(date), LAMBDA x : x.assigned_pa_id \in LoadedPAs)
\* the cards listed under a filter: 'all', 'confirmed' or 'pending'
filteredShifts(date, filter) ==
  IF filter \in {"confirmed", "pending"}
  THEN SelectSeq(shiftsWithPAs(date), LAMBDA x : x.confirmation_status = filter)
  ELSE shiftsWithPAs(date)
\* the summary statistics above the cards
summary(date) ==
  [total |-> Len(shiftsForDate(date)),
   confirmed |-> Len(SelectSeq(shiftsForDate(date), LAMBDA x : x.confirmation_status = "confirmed")),
   pending |-> Len(SelectSeq(shiftsForDate(date), LAMBDA x : x.confirmation_status = "pending")),
   declined |-> Len(SelectSeq(shiftsForDate(date), LAMBDA x : x.confirmation_status = "declined"))]

\* handleUpdateShift's callTimeFormatted / wrapTimeFormatted: '' gives null, HH:MM
\* gets ':00', anything else is passed on as it is
DailyTimeFormatted(timeStr) ==
  IF timeStr = <<>> THEN NullTime
  ELSE IF Len(timeStr) = 2 THEN timeStr \o <<0>>
  ELSE timeStr

\* handleUpdateShift's payload: { call_time: callTimeFormatted, wrap_time: wrapTimeFormatted }
DailyShiftUpdate(callTimeFormatted, wrapTimeFormatted) ==
  [call_time |-> callTimeFormatted, wrap_time |-> wrapTimeFormatted]

\* formatTime of the shift cards (PAShifts and DailyOverviewClient): HH:MM:SS is
\* shown as HH:MM, null as 'Not set'
formatTime(timeStr) ==
  IF timeStr = NullTime THEN "Not set"
  ELSE IF Len(timeStr) >= 2 THEN SubSeq(timeStr, 1, 2)
  ELSE timeStr

\* a card is rendered for a shift whose PA is one of the loaded PAs
handleShiftClick(i) ==
  /\ dailyMounted /\ ~dailyIsEditDialogOpen
  /\ i \in DOMAIN dailyShifts
  /\ dailyShifts[i].assigned_pa_id \in LoadedPAs
  /\ dailySelectedShift' = dailyShifts[i]
  /\ dailyCallTime' = TimeForInput(dailyShifts[i].call_time)
  /\ dailyWrapTime' = TimeForInput(dailyShifts[i].wrap_time)
  /\ dailyIsEditDialogOpen' = TRUE
  /\ UNCHANGED <<dailyMounted, dailyShifts, dailyIsLoading, dailyOp, dailyFeed, dailyClock,
                 dailyHist>>
  /\ UNCHANGED <<dbVars, gridVars, paVars, calVars>>
  /\ UNCHANGED extVars

\* onChange of the dialog's call-time and wrap-time inputs
DailyTypeTimes(c, w) ==
  /\ dailyIsEditDialogOpen
  /\ dailyCallTime' = c
  /\ dailyWrapTime' = w
  /\ UNCHANGED <<dailyMounted, dailyShifts, dailySelectedShift, dailyIsEditDialogOpen,
                 dailyIsLoading, dailyOp, dailyFeed, dailyClock, dailyHist>>
  /\ UNCHANGED <<dbVars, gridVars, paVars, calVars>>
  /\ UNCHANGED extVars

\* Cancel button / onOpenChange(false): only the dialog closes
DailyCloseDialog ==
  /\ dailyIsEditDialogOpen
  /\ dailyIsEditDialogOpen' = FALSE
  /\ UNCHANGED <<dailyMounted, dailyShifts, dailySelectedShift, dailyCallTime, dailyWrapTime,
                 dailyIsLoading, dailyOp, dailyFeed, dailyClock, dailyHist>>
  /\ UNCHANGED <<dbVars, gridVars, paVars, calVars>>
  /\ UNCHANGED extVars

\* handleUpdateShift up to its await: no optimistic update, the request only
handleUpdateShift ==
  /\ dailyIsEditDialogOpen /\ ~dailyIsLoading
  /\ IF dailySelectedShift = NullShift
     THEN UNCHANGED <<dailyIsLoading, dailyOp, dailyClock, dailyHist>>
     ELSE /\ dailyClock < MaxOps
          /\ dailyClock' = dailyClock + 1
          /\ dailyIsLoading' = TRUE
          /\ dailyOp' = [NoDailyOp EXCEPT
                           !.phase = "request", !.id = dailySelectedShift.id,
                           !.patch = DailyShiftUpdate(DailyTimeFormatted(dailyCallTime),
                                                      DailyTimeFormatted(dailyWrapTime))]
          /\ dailyHist' = NoDailyHist
  /\ UNCHANGED <<dailyMounted, dailyShifts, dailySelectedShift, dailyIsEditDialogOpen,
                 dailyCallTime, dailyWrapTime, dailyFeed>>
  /\ UNCHANGED <<dbVars, gridVars, paVars, calVars>>
  /\ UNCHANGED extVars

\* .update(patch).eq('id', id).select().single() executes, or the call fails and
\* leaves the table as it is; .single() finding no row is an error
DailyDbExec(fails) ==
  /\ dailyOp.phase = "request"
  /\ LET old == DbShiftById(dailyOp.id)
     IN IF fails \/ old = NullShift
        THEN /\ dailyOp' = [dailyOp EXCEPT !.phase = "response", !.error = TRUE]
             /\ UNCHANGED <<dbVars, gridShiftsFeed, paFeed, dailyFeed, rtFeed>>
        ELSE /\ writes < MaxWrites
             /\ writes' = writes + 1
             /\ LET data == DbUpdate(old, dailyOp.patch)
                IN /\ dbShifts' = (dbShifts \ {old}) \cup {data}
                   /\ PublishShifts(<<Event("UPDATE", data)>>)
                   /\ dailyOp' = [dailyOp EXCEPT !.phase = "response", !.data = data]
             /\ UNCHANGED <<dbAvail, dbNextId>>
  /\ UNCHANGED <<shifts, availability, currentUserId, selectedCell, isAssignDialogOpen,
                 isViewDialogOpen, isEditMode, isLoading, callTime, wrapTime, gridOp,
                 gridAvailFeed, tempClock, gridHist>>
  /\ UNCHANGED <<dailyMounted, dailyShifts, dailySelectedShift, dailyIsEditDialogOpen,
                 dailyCallTime, dailyWrapTime, dailyIsLoading, dailyClock, dailyHist>>
  /\ UNCHANGED <<paRest, calVars>>
  /\ UNCHANGED extRest

\* handleUpdateShift after its await: the returned row replaces the stored one,
\* toast, the dialog closes; or the catch block's toast; finally setIsLoading(false)
DailyUpdateComplete ==
  /\ dailyOp.phase = "response"
  /\ IF dailyOp.error
     THEN /\ dailyHist' = [dailyHist EXCEPT !.toast = "error"]
          /\ UNCHANGED <<dailyShifts, dailyIsEditDialogOpen, dailySelectedShift>>
     ELSE /\ dailyShifts' = ReplaceById(dailyShifts, dailyOp.id, dailyOp.data)
          /\ dailyHist' = [dailyHist EXCEPT !.toast = "success"]
          /\ dailyIsEditDialogOpen' = FALSE
          /\ dailySelectedShift' = NullShift
  /\ dailyIsLoading' = FALSE
  /\ dailyOp' = NoDailyOp
  /\ UNCHANGED <<dailyMounted, dailyCallTime, dailyWrapTime, dailyFeed, dailyClock>>
  /\ UNCHANGED <<dbVars, gridVars, paVars, calVars>>
  /\ UNCHANGED extVars

DailyDeliver ==
  /\ dailyFeed # <<>>
  /\ dailyShifts' = DailyShiftsMerge(dailyShifts, Head(dailyFeed))
  /\ dailyFeed' = Tail(dailyFeed)
  /\ UNCHANGED <<dailyMounted, dailySelectedShift, dailyIsEditDialogOpen, dailyCallTime,
                 dailyWrapTime, dailyIsLoading, dailyOp, dailyClock, dailyHist>>
  /\ UNCHANGED <<dbVars, gridVars, paVars, calVars>>
  /\ UNCHANGED extVars

\* ------------------------------------------- the PC's two time-edit paths
\* the page's shifts: .in('assigned_pa_id', paIds).order('date')
InitDailyMounted ==
  /\ dailyMounted = TRUE
  /\ dailyShifts = RowsByDate({r \in dbShifts : r.assigned_pa_id \in LoadedPAs})
  /\ dailySelectedShift = NullShift
  /\ dailyIsEditDialogOpen = FALSE
  /\ dailyCallTime = <<>>
  /\ dailyWrapTime = <<>>
  /\ dailyIsLoading = FALSE
  /\ dailyOp = NoDailyOp
  /\ dailyFeed = <<>>
  /\ dailyClock = 0
  /\ dailyHist = NoDailyHist

\* one shift is assigned; the PC has the grid or the daily overview open (two
\* routes of one application), the PA answers from the PA's own session
InitTimeEdit ==
  /\ dbAvail = InitAvail
  /\ dbShifts = {InitShift}
  /\ dbNextId = 3
  /\ writes = 0
  /\ InitGrid
  /\ InitExt
  /\ InitPA
  /\ InitCal
  /\ InitDaily \/ InitDailyMounted

\* the grid's time edit, while the grid is the open page
GridTimeEdit ==
  \/ GridResolveUser
  \/ \E d \in Dates : handleCellClick(PA1, d)
  \/ GridCloseViewDialog
  \/ GridEditShift
  \/ GridCancelEdit
  \/ \E t \in UITimePairs : GridTypeTimes(t[1], t[2])
  \/ updateShift
  \/ \E fails \in BOOLEAN : GridDbExec(fails)
  \/ GridUpdateComplete
  \/ GridShiftsDeliver

NextTimeEdit ==
  \/ ~dailyMounted /\ GridTimeEdit
  \/ \E i \in DOMAIN dailyShifts : handleShiftClick(i)
  \/ \E t \in UITimePairs : DailyTypeTimes(t[1], t[2])
  \/ DailyCloseDialog
  \/ handleUpdateShift
  \/ \E fails \in BOOLEAN : DailyDbExec(fails)
  \/ DailyUpdateComplete
  \/ DailyDeliver
  \/ \E id \in {r.id : r \in dbShifts}, st \in {"confirmed", "declined"} :
       RemoteShiftStatus(id, st)

SpecTimeEdit == InitTimeEdit /\ [][NextTimeEdit]_vars

\* ====================================================== the change feeds
\* another PA of the production, and a day outside every loaded window
PA2 == "p2"
OutDate == 3
FeedUsers == {PA1, PA2}
FeedDates == {1, OutDate}

\* the weeks the PC page loads: .gte('date', startDateStr).lte('date', endDateStr)
startDateStr == 1
endDateStr == 2
GridLoaded(date) == date >= startDateStr /\ date <= endDateStr

\* another PC session's createShift insert reaches the database
RemoteCreateShift(paId, date) ==
  /\ writes < MaxWrites
  /\ LET data == DbInsertShift([NullShift EXCEPT !.date = date, !.assigned_pa_id = paId,
                                                 !.assigned_by_id = PC1])
     IN /\ dbShifts' = dbShifts \cup {data}
        /\ dbNextId' = dbNextId + 1
        /\ PublishShifts(<<Event("INSERT", data)>>)
  /\ writes' = writes + 1
  /\ UNCHANGED <<dbAvail, shifts, availability, currentUserId, selectedCell,
                 isAssignDialogOpen, isViewDialogOpen, isEditMode, isLoading, callTime,
                 wrapTime, gridOp, gridAvailFeed, tempClock, gridHist>>
  /\ UNCHANGED <<calVars, dailyRest, paRest>>
  /\ UNCHANGED extRest

\* another PC session's deleteShift delete reaches the database
RemoteDeleteShift(id) ==
  /\ writes < MaxWrites
  /\ LET old == DbShiftById(id)
     IN /\ old # NullShift
        /\ dbShifts' = dbShifts \ {old}
        /\ PublishShifts(<<Event("DELETE", old)>>)
  /\ writes' = writes + 1
  /\ UNCHANGED <<dbAvail, dbNextId, shifts, availability, currentUserId, selectedCell,
                 isAssignDialogOpen, isViewDialogOpen, isEditMode, isLoading, callTime,
                 wrapTime, gridOp, gridAvailFeed, tempClock, gridHist>>
  /\ UNCHANGED <<calVars, dailyRest, paRest>>
  /\ UNCHANGED extRest

\* the calendar with its month fetched
InitCalMounted ==
  /\ calMounted = TRUE
  /\ calAvailability = CalSelect(PA1)
  /\ calIsLoading = FALSE
  /\ calFetch = NoCalFetch
  /\ calOp = NoCalOp
  /\ calFeed = <<>>
  /\ calClock = 0
  /\ selectedDate = 0
  /\ noteDialogOpen = FALSE
  /\ currentNote = ""

\* every component is on a page of some session and idle; the writes come from
\* other sessions
InitFeed ==
  /\ dbAvail = InitAvail
  /\ dbShifts = {InitShift}
  /\ dbNextId = 3
  /\ writes = 0
  /\ InitGrid
  /\ InitExt
  /\ InitPAMounted
  /\ InitCalMounted
  /\ InitDailyMounted

NextFeed ==
  \/ GridResolveUser
  \/ \E paId \in FeedUsers, d \in FeedDates : RemoteCreateShift(paId, d)
  \/ \E id \in {r.id : r \in dbShifts}, st \in {"confirmed", "declined"} :
       RemoteShiftStatus(id, st)
  \/ \E id \in {r.id : r \in dbShifts} : RemoteDeleteShift(id)
  \/ \E userId \in FeedUsers, d \in FeedDates : RemoteUserDateClick(userId, d)
  \/ GridShiftsDeliver
  \/ GridAvailDeliver
  \/ PaDeliver
  \/ CalDeliver
  \/ DailyDeliver

SpecFeed == InitFeed /\ [][NextFeed]_vars

\* ================================================= PARealtimeSubscriptions
\* supabase.auth.getUser().then(({ data: { user } }) => { if (user) setUserId(user.id) });
\* the subscription effect then runs with userId set and opens the channel
RtResolveUser ==
  /\ rtUserId = NullUser
  /\ rtUserId' = PA1
  /\ UNCHANGED <<rtFeed, rtRefreshes, exceptRt>>
  /\ UNCHANGED appVars

\* either handler of the channel: router.refresh(); the client components keep the
\* state they have (useState reads its initial value once)
RtDeliver ==
  /\ rtFeed # <<>>
  /\ rtFeed' = Tail(rtFeed)
  /\ rtRefreshes' = rtRefreshes + 1
  /\ UNCHANGED <<rtUserId, exceptRt>>
  /\ UNCHANGED appVars

\* the PC's grid and the PA's dashboard have just mounted: neither knows its user
\* yet, other sessions write
InitSubscribe ==
  /\ dbAvail = InitAvail
  /\ dbShifts = {InitShift}
  /\ dbNextId = 3
  /\ writes = 0
  /\ InitGrid
  /\ InitExt
  /\ InitPA
  /\ InitCal
  /\ InitDaily

NextSubscribe ==
  \/ GridResolveUser
  \/ RtResolveUser
  \/ \E paId \in FeedUsers : RemoteCreateShift(paId, 1)
  \/ \E id \in {r.id : r \in dbShifts}, st \in {"confirmed", "declined"} :
       RemoteShiftStatus(id, st)
  \/ \E id \in {r.id : r \in dbShifts} : RemoteDeleteShift(id)
  \/ \E userId \in FeedUsers : RemoteUserDateClick(userId, 1)
  \/ GridShiftsDeliver
  \/ GridAvailDeliver
  \/ RtDeliver

SpecSubscribe == InitSubscribe /\ [][NextSubscribe]_vars

\* ============================================ subscribe status callbacks
\* the statuses realtime hands to the callback of .subscribe()
ChannelStatuses == {"SUBSCRIBED", "CHANNEL_ERROR", "TIMED_OUT", "CLOSED"}

\* a callback that opens a new channel when the old one failed
ResubscribesOnFailure(status) == status \in {"CHANNEL_ERROR", "TIMED_OUT", "CLOSED"}

\* neither callback calls subscribe() or changes a dependency of its effect
GridStatusResubscribes(status) == FALSE
PaStatusResubscribes(status) == FALSE

\* AvailabilityGrid: .subscribe((status) => { if (status === 'CHANNEL_ERROR') console.error(...) })
GridStatusConsole(status, prev) ==
  IF status = "CHANNEL_ERROR"
  THEN [level |-> "error", text |-> "Error subscribing to shifts changes"]
  ELSE prev

\* PAShifts: .subscribe((status, err) => { ... }), its last console call per status
PaStatusConsole(status, prev) ==
  CASE status = "SUBSCRIBED" ->
         [level |-> "log", text |-> "PA: Successfully subscribed to shifts changes"]
    [] status = "CHANNEL_ERROR" -> [level |-> "error", text |-> "PA: Filter:"]
    [] status = "TIMED_OUT" -> [level |-> "error", text |-> "PA: Subscription timed out"]
    [] status = "CLOSED" -> [level |-> "warn", text |-> "PA: Subscription closed"]
    [] OTHER -> [level |-> "log", text |-> "PA: Subscription status:"]

\* the shifts channel's callback; the channel exists once currentUserId is set. A new
\* channel would start without the events waiting on the old one
GridSubscribeStatus(status) ==
  /\ currentUserId # NullUser
  /\ chanStatus' = [chanStatus EXCEPT !.grid = status]
  /\ console' = GridStatusConsole(status, console)
  /\ gridShiftsFeed' = IF GridStatusResubscribes(status) THEN <<>> ELSE gridShiftsFeed
  /\ UNCHANGED <<shifts, availability, currentUserId, selectedCell, isAssignDialogOpen,
                 isViewDialogOpen, isEditMode, isLoading, callTime, wrapTime, gridOp,
                 gridAvailFeed, tempClock, gridHist>>
  /\ UNCHANGED <<dbVars, paVars, calVars, dailyVars, exceptLog>>

PaSubscribeStatus(status) ==
  /\ paMounted
  /\ chanStatus' = [chanStatus EXCEPT !.pa = status]
  /\ console' = PaStatusConsole(status, console)
  /\ paFeed' = IF PaStatusResubscribes(status) THEN <<>> ELSE paFeed
  /\ UNCHANGED paRest
  /\ UNCHANGED <<dbVars, gridVars, calVars, dailyVars, exceptLog>>

\* one pending shift; the grid and the PA's list are open, their channels report
\* statuses while the PC deletes and the PA confirms
InitStatus ==
  /\ dbAvail = InitAvail
  /\ dbShifts = {InitShift}
  /\ dbNextId = 3
  /\ writes = 0
  /\ InitGrid
  /\ InitExt
  /\ InitPAMounted
  /\ InitCal
  /\ InitDaily

NextStatus ==
  \/ GridResolveUser
  \/ \E status \in ChannelStatuses : GridSubscribeStatus(status)
  \/ \E status \in ChannelStatuses : PaSubscribeStatus(status)
  \/ \E d \in Dates : handleCellClick(PA1, d)
  \/ \E confirmed \in BOOLEAN : deleteShift(confirmed)
  \/ \E fails \in BOOLEAN : GridDbExec(fails)
  \/ GridDeleteComplete
  \/ GridShiftsDeliver
  \/ \E id \in ShiftIds : confirmShift(id)
  \/ \E op \in paOps, fails \in BOOLEAN : PaDbExec(op, fails)
  \/ \E op \in paOps : PaComplete(op)
  \/ \E op \in paOps, outcome \in EmailOutcomes : PaEmail(op, outcome)
  \/ PaDeliver

SpecStatus == InitStatus /\ [][NextStatus]_vars

\* ======================================== availability next to assignments
\* the PA's day is preferred and a pending shift is assigned on it; the PC has the
\* grid open and confirms the deletions asked for, the PA has the calendar open with
\* its month fetched
InitCascade ==
  /\ dbAvail = InitAvail
  /\ dbShifts = {InitShift}
  /\ dbNextId = 3
  /\ writes = 0
  /\ InitGrid
  /\ InitExt
  /\ InitPA
  /\ InitCalMounted
  /\ InitDaily

NextCascade ==
  \/ GridResolveUser
  \/ \E d \in Dates : handleCellClick(PA1, d)
  \/ deleteShift(TRUE)
  \/ \E fails \in BOOLEAN : GridDbExec(fails)
  \/ GridDeleteComplete
  \/ GridShiftsDeliver
  \/ GridAvailDeliver
  \/ CalDeliver
  \/ \E d \in Dates : handleDateClick(d)
  \/ \E d \in Dates : handleNoteClick(d)
  \/ CalTypeNote("late")
  \/ saveNote
  \/ \E fails \in BOOLEAN : CalDbExec(fails)
  \/ CalComplete
  \/ \E fails \in BOOLEAN : CalRefetchExec(fails)
  \/ CalRefetchComplete

SpecCascade == InitCascade /\ [][NextCascade]_vars

\* ================================================ lib/email/notifications
\* sendShiftAssignmentEmail and sendShiftConfirmationEmail, cut at their one
\* await (resend.emails.send).

\* the values process.env gives for the API key: none, one that does not start
\* with "re_", a well-formed one
MailKeys == {"", "bad_key", "re_key"}

\* what the provider's send call can do: resolve with the message accepted,
\* resolve with an error object, reject
SendOutcomes == {"ok", "error", "rejects"}

\* the call times a shift can carry
MailTimes == {NullTime, <<8, 0, 0>>}

\* formatTimeForEmail: HH:MM of HH:MM:SS
formatTimeForEmail(timeStr) ==
  IF timeStr = NullTime THEN "Not specified"
  ELSE IF Len(timeStr) >= 2 THEN SubSeq(timeStr, 1, 2)
  ELSE timeStr

\* the key passes the format check
KeyWellFormed(key) == key = "re_key"

\* the message handed to resend.emails.send
MailMessage(m) ==
  [to |-> m.to,
   subject |-> IF m.fn = "assignment" THEN "New Shift Assignment"
               ELSE IF m.status = "confirmed" THEN "PA Confirmed Shift"
               ELSE "PA Declined Shift",
   callTime |-> formatTimeForEmail(m.callTime)]

\* the function up to the await: the email is logged; without a key three
\* warnings and the function returns, with a key the send call is started
MailCall(fn, to, status, callTimeStr) ==
  /\ mail.phase # "sending"
  /\ mail.calls < MaxOps
  /\ LET m == [fn |-> fn, phase |-> "sending", to |-> to, status |-> status,
               callTime |-> callTimeStr, raised |-> FALSE, calls |-> mail.calls + 1,
               outcome |-> "none"]
     IN IF resendApiKey = ""
        THEN /\ mail' = [m EXCEPT !.phase = "returned", !.outcome = "nokey"]
             /\ console' = [level |-> "warn", text |-> "RESEND_API_KEY not found"]
        ELSE /\ mail' = m
             /\ console' = IF KeyWellFormed(resendApiKey)
                           THEN [level |-> "log", text |-> "Resend API key detected"]
                           ELSE [level |-> "warn", text |-> "format appears invalid"]
  /\ UNCHANGED <<resendApiKey, outbox>>
  /\ UNCHANGED <<appVars, exceptMail>>

sendShiftAssignmentEmail(paEmail, callTimeStr) ==
  MailCall("assignment", paEmail, "none", callTimeStr)

sendShiftConfirmationEmail(pcEmail, confirmationStatus, callTimeStr) ==
  MailCall("confirmation", pcEmail, confirmationStatus, callTimeStr)

\* a send call that lets the provider's rejection reach the caller
SendRaisesOnReject(outcome) == outcome = "rejects"

\* try { await resend.emails.send } catch { console.error }: nothing is
\* rethrown
SendRaises(outcome) == FALSE

\* the send call settles and the function returns
MailProviderResponds(outcome) ==
  /\ mail.phase = "sending"
  /\ mail' = [mail EXCEPT !.phase = "returned", !.raised = SendRaises(outcome),
                           !.outcome = outcome]
  /\ outbox' = IF outcome = "ok" THEN Append(outbox, MailMessage(mail)) ELSE outbox
  /\ console' = IF outcome = "rejects"
                THEN [level |-> "error", text |-> "Failed to send email via Resend"]
                ELSE [level |-> "log", text |-> "Email sent successfully via Resend"]
  /\ UNCHANGED resendApiKey
  /\ UNCHANGED <<appVars, exceptMail>>

InitNotify ==
  /\ InitDb
  /\ InitGrid
  /\ InitPA
  /\ InitCal
  /\ InitDaily
  /\ InitRt
  /\ InitLog
  /\ InitNav /\ InitSub /\ InitReg
  /\ InitSrv
  /\ resendApiKey \in MailKeys
  /\ mail = NoMail
  /\ outbox = <<>>

NextNotify ==
  \/ \E callTimeStr \in MailTimes : sendShiftAssignmentEmail(PA1, callTimeStr)
  \/ \E confirmationStatus \in {"confirmed", "declined"}, callTimeStr \in MailTimes :
       sendShiftConfirmationEmail(PC1, confirmationStatus, callTimeStr)
  \/ \E outcome \in SendOutcomes : MailProviderResponds(outcome)

SpecNotify == InitNotify /\ [][NextNotify]_vars

\* ============================================================ middleware
\* A pathname is the sequence of its characters.

startsWith(str, prefix) ==
  /\ Len(str) >= Len(prefix)
  /\ SubSeq(str, 1, Len(prefix)) = prefix

endsWith(str, suffix) ==
  /\ Len(str) >= Len(suffix)
  /\ SubSeq(str, Len(str) - Len(suffix) + 1, Len(str)) = suffix

\* the pathnames requested
Pathnames ==
  {<<"/">>,
   <<"/", "l", "o", "g", "i", "n">>,
   <<"/", "r", "e", "g", "i", "s", "t", "e", "r">>,
   <<"/", "p", "a">>,
   <<"/", "p", "a", "/", "x">>,
   <<"/", "p", "a", "x">>,
   <<"/", "p", "c">>,
   <<"/", "p", "c", "/", "x">>,
   <<"/", "x">>,
   <<"/", "p", "a", "/", "x", ".", "p", "n", "g">>,
   <<"/", "a", "p", "i", "/", "x">>}

\* config.matcher: every path except those that start with api, _next/static,
\* _next/image or favicon.ico after the first slash, or end in an image suffix
matcher(pathname) ==
  /\ startsWith(pathname, <<"/">>)
  /\ \A prefix \in {<<"/", "a", "p", "i">>,
                    <<"/", "_", "n", "e", "x", "t", "/", "s", "t", "a", "t", "i", "c">>,
                    <<"/", "_", "n", "e", "x", "t", "/", "i", "m", "a", "g", "e">>,
                    <<"/", "f", "a", "v", "i", "c", "o", "n", ".", "i", "c", "o">>} :
       ~startsWith(pathname, prefix)
  /\ \A suffix \in {<<".", "s", "v", "g">>, <<".", "p", "n", "g">>, <<".", "j", "p", "g">>,
                    <<".", "j", "p", "e", "g">>, <<".", "g", "i", "f">>, <<".", "w", "e", "b", "p">>} :
       ~endsWith(pathname, suffix)

\* the sessions a request's cookies can carry: none, an error from the auth
\* service, a user with a row in users, a user without one
MwSessions ==
  {[user |-> NullUser, error |-> FALSE], [user |-> NullUser, error |-> TRUE],
   [user |-> PA1, error |-> FALSE], [user |-> PC1, error |-> FALSE],
   [user |-> PA2, error |-> FALSE]}

\* .from('users').select('role').eq('id', id).single(): the row or null
UserRowById(id) == IF id \in DOMAIN users THEN users[id] ELSE NoRow

isPublicRoute(pathname) == pathname = <<"/", "l", "o", "g", "i", "n">> \/ pathname = <<"/", "r", "e", "g", "i", "s", "t", "e", "r">>
isPARoute(pathname) == startsWith(pathname, <<"/", "p", "a">>)
isPCRoute(pathname) == startsWith(pathname, <<"/", "p", "c">>)
isRoot(pathname) == pathname = <<"/">>

\* a session counts as authenticated as soon as the auth service knows the user
HasAuthUser(authUser, userRole) == authUser # NullUser
\* const isAuthenticated = !!authUser && !!userRole
IsAuthenticated(authUser, userRole) == authUser # NullUser /\ userRole # "none"

\* a guard of the PA routes that does not look at the role
PARouteResponseForAnyRole(isAuthenticated, userRole) ==
  IF ~isAuthenticated THEN "/login" ELSE "next"

\* if (isPARoute) { ... }
PARouteResponse(isAuthenticated, userRole) ==
  IF ~isAuthenticated THEN "/login"
  ELSE IF userRole # "PA" THEN "/pc"
  ELSE "next"

\* if (isPCRoute) { ... }
PCRouteResponse(isAuthenticated, userRole) ==
  IF ~isAuthenticated THEN "/login"
  ELSE IF userRole # "PC" THEN "/pa"
  ELSE "next"

\* the rest of the middleware once authUser and userRole are known: "next" is
\* NextResponse.next(), a path is NextResponse.redirect to it
MwResponse(pathname, authUser, userRole) ==
  LET isAuthenticated == IsAuthenticated(authUser, userRole)
      dashboardPath == IF userRole = "PA" THEN "/pa" ELSE "/pc"
  IN IF isRoot(pathname)
     THEN (IF isAuthenticated THEN dashboardPath ELSE "/login")
     ELSE IF isPublicRoute(pathname)
     THEN (IF isAuthenticated THEN dashboardPath ELSE "next")
     ELSE IF isPARoute(pathname) THEN PARouteResponse(isAuthenticated, userRole)
     ELSE IF isPCRoute(pathname) THEN PCRouteResponse(isAuthenticated, userRole)
     ELSE "next"

\* a matched request enters the middleware; it logs and awaits auth.getUser()
MwReceive(pathname) ==
  /\ mw.phase \in {"idle", "done"}
  /\ matcher(pathname)
  /\ mw' = [NoMw EXCEPT !.phase = "getUser", !.pathname = pathname]
  /\ console' = [level |-> "log", text |-> "ANON KEY CHECK"]
  /\ UNCHANGED <<users, productions, page, invite, gen>>
  /\ UNCHANGED <<appVars, exceptSrv>>

\* auth.getUser() resolves; with a user and no error the role query is awaited,
\* otherwise the response is decided with userRole null
MwGetUser(session) ==
  /\ mw.phase = "getUser"
  /\ mw' = IF session.user # NullUser /\ ~session.error
           THEN [mw EXCEPT !.phase = "role", !.authUser = session.user]
           ELSE [mw EXCEPT !.phase = "done", !.authUser = session.user,
                           !.response = MwResponse(mw.pathname, session.user, "none")]
  /\ UNCHANGED <<users, productions, page, invite, gen, console>>
  /\ UNCHANGED <<appVars, exceptSrv>>

\* the role query resolves and the response is decided
MwRoleQuery ==
  /\ mw.phase = "role"
  /\ LET userRole == UserRowById(mw.authUser).role
     IN mw' = [mw EXCEPT !.phase = "done", !.userRole = userRole,
                         !.response = MwResponse(mw.pathname, mw.authUser, userRole)]
  /\ UNCHANGED <<users, productions, page, invite, gen, console>>
  /\ UNCHANGED <<appVars, exceptSrv>>

InitMiddleware ==
  /\ InitApp
  /\ InitRt
  /\ InitLog
  /\ InitNav /\ InitSub /\ InitReg
  /\ InitMail
  /\ users \in {[u \in {PA1, PC1} |-> [role |-> IF u = PA1 THEN "PA" ELSE "PC",
                                       production_id |-> "none"]],
                [u \in {PA1, PC1} |-> [role |-> "PC", production_id |-> "none"]]}
  /\ productions = <<>>
  /\ mw = NoMw
  /\ page = NoPage
  /\ invite = NoInvite
  /\ gen = NoGen

NextMiddleware ==
  \/ \E pathname \in Pathnames : MwReceive(pathname)
  \/ \E session \in MwSessions : MwGetUser(session)
  \/ MwRoleQuery

SpecMiddleware == InitMiddleware /\ [][NextMiddleware]_vars

\* ---- the browser follows the middleware's redirects with the same cookies
MaxRedirects == 4

\* new URL(path, request.url).pathname of a redirect response
RedirectPath(response) ==
  CASE response = "/login" -> <<"/", "l", "o", "g", "i", "n">>
    [] response = "/pa" -> <<"/", "p", "a">>
    [] response = "/pc" -> <<"/", "p", "c">>

\* a navigation: the first request of a chain, with the session its cookies carry
MwNavigate(pathname, session) ==
  /\ mw.phase \in {"idle", "done"}
  /\ matcher(pathname)
  /\ mw' = [NoMw EXCEPT !.phase = "getUser", !.pathname = pathname, !.session = session]
  /\ console' = [level |-> "log", text |-> "ANON KEY CHECK"]
  /\ UNCHANGED <<users, productions, page, invite, gen>>
  /\ UNCHANGED <<appVars, exceptSrv>>

\* auth.getUser() of a request of the chain: the session is the chain's
MwGetUserOfChain == MwGetUser(mw.session)

\* NextResponse.redirect reached the browser, which requests the new location
MwFollowRedirect ==
  /\ mw.phase = "done" /\ mw.response # "next"
  /\ mw.redirects < MaxRedirects
  /\ matcher(RedirectPath(mw.response))
  /\ mw' = [mw EXCEPT !.phase = "getUser", !.pathname = RedirectPath(mw.response),
                      !.authUser = NullUser, !.userRole = "none", !.response = "none",
                      !.redirects = mw.redirects + 1]
  /\ console' = [level |-> "log", text |-> "ANON KEY CHECK"]
  /\ UNCHANGED <<users, productions, page, invite, gen>>
  /\ UNCHANGED <<appVars, exceptSrv>>

NextRedirects ==
  \/ \E pathname \in Pathnames, session \in MwSessions : MwNavigate(pathname, session)
  \/ MwGetUserOfChain
  \/ MwRoleQuery
  \/ MwFollowRedirect

SpecRedirects == InitMiddleware /\ [][NextRedirects]_vars

\* ===================================================== the PC's server pages
\* getDashboardData (pc/page.tsx) and getDailyOverviewData
\* (pc/daily-overview/page.tsx), cut at their awaits, next to the writes of
\* the create-production and register pages of other sessions.

PC2 == "c2"

\* the ids the database gives the productions, in insertion order
ProductionIds == <<"prod1", "prod2", "prod3", "prod4">>

\* the invite codes in use
InviteCodes == {<<"A", "B", "C", "-", "2", "3", "4">>, <<"X", "Y", "Z", "-", "7", "8", "9">>}

\* create-production's insert: no test on created_by or invite_code precedes it
RemoteCreateProduction(pc, inviteCode) ==
  /\ Len(productions) <= MaxWrites
  /\ productions' = Append(productions,
                           [id |-> ProductionIds[Len(productions) + 1],
                            invite_code |-> inviteCode, created_by |-> pc,
                            is_active |-> TRUE])
  /\ UNCHANGED <<users, mw, page, invite, gen, console>>
  /\ UNCHANGED <<appVars, exceptSrv>>

\* register's insert into users for a PA whose invite code was validated
RemoteRegisterPA(pa, productionId) ==
  /\ pa \in DOMAIN users
  /\ users[pa] = NoRow
  /\ \E k \in 1..Len(productions) : productions[k].id = productionId
  /\ users' = [users EXCEPT ![pa] = [role |-> "PA", production_id |-> productionId]]
  /\ UNCHANGED <<productions, mw, page, invite, gen, console>>
  /\ UNCHANGED <<appVars, exceptSrv>>

\* the sessions that request a page
PageSessions == {NullUser, PC1, PC2, PA1}

\* .maybeSingle(): the row when exactly one matches, null otherwise
MaybeSingle(rows) ==
  IF Len(rows) = 1 THEN rows[1].id ELSE "none"

\* .from('productions').select('*').eq('created_by', id)
ProductionsCreatedBy(id) ==
  SelectSeq(productions, LAMBDA r : r.created_by = id)

\* pasQuery: .eq('role', 'PA'), and .eq('production_id', production.id) only
\* if (production?.id)
PAsQuery(production) ==
  {u \in DOMAIN users :
     /\ users[u].role = "PA"
     /\ production # "none" => users[u].production_id = production}

\* the function starts and auth.getUser() resolves
PageStart(fn, authUser) ==
  /\ page.phase \in {"idle", "done"}
  /\ page' = IF authUser = NullUser
             THEN [NoPage EXCEPT !.phase = "done", !.fn = fn, !.outcome = "throws"]
             ELSE [NoPage EXCEPT !.phase = IF fn = "getDashboardData" THEN "role"
                                           ELSE "production",
                                 !.fn = fn, !.authUser = authUser]
  /\ UNCHANGED <<users, productions, mw, invite, gen, console>>
  /\ UNCHANGED <<appVars, exceptSrv>>

\* getDashboardData: the role query; no row or a role other than PC throws
PageRoleQuery ==
  /\ page.phase = "role"
  /\ page' = IF UserRowById(page.authUser).role = "PC"
             THEN [page EXCEPT !.phase = "production"]
             ELSE [page EXCEPT !.phase = "done", !.outcome = "throws"]
  /\ UNCHANGED <<users, productions, mw, invite, gen, console>>
  /\ UNCHANGED <<appVars, exceptSrv>>

\* the production query; its error is at most logged
PageProductionQuery ==
  /\ page.phase = "production"
  /\ page' = [page EXCEPT !.phase = "pas",
                          !.production = MaybeSingle(ProductionsCreatedBy(page.authUser))]
  /\ UNCHANGED <<users, productions, mw, invite, gen, console>>
  /\ UNCHANGED <<appVars, exceptSrv>>

\* the PA query; availability and shifts are then fetched for these ids
PagePasQuery ==
  /\ page.phase = "pas"
  /\ page' = [page EXCEPT !.phase = "done", !.pas = PAsQuery(page.production),
                          !.outcome = "ok"]
  /\ UNCHANGED <<users, productions, mw, invite, gen, console>>
  /\ UNCHANGED <<appVars, exceptSrv>>

\* PC2 has a production that PA1 joined; PC1 has none yet; PA2 has not registered
InitRoster ==
  /\ InitApp
  /\ InitRt
  /\ InitLog
  /\ InitNav /\ InitSub /\ InitReg
  /\ InitMail
  /\ users = [u \in {PA1, PA2, PC1, PC2} |->
                IF u = PA1 THEN [role |-> "PA", production_id |-> "prod1"]
                ELSE IF u = PA2 THEN NoRow
                ELSE [role |-> "PC", production_id |-> "none"]]
  /\ productions = <<[id |-> "prod1", invite_code |-> <<"A", "B", "C", "-", "2", "3", "4">>,
                      created_by |-> PC2, is_active |-> TRUE]>>
  /\ mw = NoMw
  /\ page = NoPage
  /\ invite = NoInvite
  /\ gen = NoGen

NextRoster ==
  \/ \E pc \in {PC1, PC2}, inviteCode \in InviteCodes : RemoteCreateProduction(pc, inviteCode)
  \/ \E productionId \in Range(ProductionIds) : RemoteRegisterPA(PA2, productionId)
  \/ \E fn \in {"getDashboardData", "getDailyOverviewData"}, authUser \in PageSessions :
       PageStart(fn, authUser)
  \/ PageRoleQuery
  \/ PageProductionQuery
  \/ PagePasQuery

SpecRoster == InitRoster /\ [][NextRoster]_vars

\* ============================================= POST /api/validate-invite-code
\* The route handler, cut at its awaits, and validateInviteCodeClient around it.

LowerCase ==
  <<"a", "b", "c", "d", "e", "f", "g", "h", "i", "j", "k", "l", "m", "n", "o", "p", "q", "r", "s", "t", "u", "v", "w", "x", "y", "z">>
UpperCase ==
  <<"A", "B", "C", "D", "E", "F", "G", "H", "I", "J", "K", "L", "M", "N", "O", "P", "Q", "R", "S", "T", "U", "V", "W", "X", "Y", "Z">>

\* String.prototype.toUpperCase, character by character
toUpperCase(str) ==
  [i \in 1..Len(str) |->
     IF \E k \in 1..Len(LowerCase) : LowerCase[k] = str[i]
     THEN UpperCase[CHOOSE k \in 1..Len(LowerCase) : LowerCase[k] = str[i]]
     ELSE str[i]]

\* the codes a registering PA types
SubmittedCodes == {<<"A", "B", "C", "-", "2", "3", "4">>, <<"a", "b", "c", "-", "2", "3", "4">>, <<"X", "Y", "Z", "-", "7", "8", "9">>}

\* .eq('invite_code', key).eq('is_active', true)
ActiveProductionsWithCode(key) ==
  SelectSeq(productions, LAMBDA r : r.invite_code = key /\ r.is_active)

\* .single(): the row when exactly one matches; otherwise an error and no data
Single(rows) ==
  IF Len(rows) = 1 THEN rows[1].id ELSE "none"

\* validateInviteCodeClient: the body of the response, or {valid: false} when
\* reading it throws
validateInviteCodeClient(response, productionId) ==
  IF response = "valid" THEN [valid |-> TRUE, productionId |-> productionId]
  ELSE [valid |-> FALSE, productionId |-> "none"]

\* the request arrives; code.toUpperCase() throws when the body has no code
InvitePost(hasCode, code) ==
  /\ invite.phase \in {"idle", "done"}
  /\ invite' = IF hasCode
               THEN [NoInvite EXCEPT !.phase = "query", !.hasCode = TRUE,
                                     !.code = code, !.key = toUpperCase(code)]
               ELSE [NoInvite EXCEPT !.phase = "done", !.response = "error500",
                                     !.client = validateInviteCodeClient("error500", "none")]
  /\ UNCHANGED <<users, productions, mw, page, gen, console>>
  /\ UNCHANGED <<appVars, exceptSrv>>

\* the query resolves and the route answers
InviteQuery ==
  /\ invite.phase = "query"
  /\ LET data == Single(ActiveProductionsWithCode(invite.key))
         response == IF data = "none" THEN "invalid" ELSE "valid"
     IN invite' = [invite EXCEPT !.phase = "done", !.response = response,
                                 !.productionId = data,
                                 !.client = validateInviteCodeClient(response, data)]
  /\ UNCHANGED <<users, productions, mw, page, gen, console>>
  /\ UNCHANGED <<appVars, exceptSrv>>

\* no production, an active one, or one that was deactivated
InitInvite ==
  /\ InitApp
  /\ InitRt
  /\ InitLog
  /\ InitNav /\ InitSub /\ InitReg
  /\ InitMail
  /\ users = [u \in {PA1, PC1, PC2} |->
                [role |-> IF u = PA1 THEN "PA" ELSE "PC", production_id |-> "none"]]
  /\ productions \in {<<>>} \cup
       {<<[id |-> "prod1", invite_code |-> <<"A", "B", "C", "-", "2", "3", "4">>, created_by |-> PC2,
           is_active |-> b]>> : b \in BOOLEAN}
  /\ mw = NoMw
  /\ page = NoPage
  /\ invite = NoInvite
  /\ gen = NoGen

NextInvite ==
  \/ \E pc \in {PC1, PC2}, inviteCode \in InviteCodes : RemoteCreateProduction(pc, inviteCode)
  \/ \E code \in SubmittedCodes : InvitePost(TRUE, code)
  \/ InvitePost(FALSE, <<>>)
  \/ InviteQuery

SpecInvite == InitInvite /\ [][NextInvite]_vars

\* ---------------------------------------------------------------- register page
\* handleRegister: form check, invite-code validation for a PA, auth.signUp,
\* insert into users, auth.signInWithPassword, and the redirect
RegIds == <<"n1", "n2", "n3">>
RegRoles == {"PA", "PC"}
\* the project codes typed: the active code with a trailing blank, a code of
\* no production, nothing
RegCodes == {<<"a", "b", "c", "-", "2", "3", "4", " ">>, <<"X", "Y", "Z", "-", "7", "8", "9">>, <<>>}
SignUpOutcomes == {"ok", "error", "no_user"}

RECURSIVE trimStart(_)
trimStart(str) ==
  IF str # <<>> /\ Head(str) = " " THEN trimStart(Tail(str)) ELSE str
RECURSIVE trimEnd(_)
trimEnd(str) ==
  IF str # <<>> /\ str[Len(str)] = " " THEN trimEnd(SubSeq(str, 1, Len(str) - 1)) ELSE str
\* String.prototype.trim
trim(str) == trimEnd(trimStart(str))

\* validateForm: a PA needs a project code (the other fields are taken as filled in)
validateForm(role, projectCode) == role = "PA" => trim(projectCode) # <<>>

\* what validateInviteCodeClient(projectCode.trim()) resolves to: the route's
\* answer, or {valid: false} when the fetch throws
RegValidation(projectCode, fetchFails) ==
  IF fetchFails THEN validateInviteCodeClient("error500", "none")
  ELSE LET data == Single(ActiveProductionsWithCode(toUpperCase(trim(projectCode))))
       IN validateInviteCodeClient(IF data = "none" THEN "invalid" ELSE "valid", data)

\* the row handleRegister inserts: production_id only for a PA with a production
userInsertData(role, productionId) ==
  [role |-> role,
   production_id |-> IF role = "PA" /\ productionId # "none" THEN productionId ELSE "none"]

RegEnd(outcome) == reg' = [reg EXCEPT !.phase = "done", !.outcome = outcome]

\* submit: an invalid form returns at once; a PA's code is validated first
handleRegister(role, projectCode) ==
  /\ reg.phase \in {"idle", "done"}
  /\ reg.calls < MaxOps
  /\ LET r == [NoReg EXCEPT !.role = role, !.projectCode = projectCode,
                            !.calls = reg.calls + 1]
     IN reg' = IF ~validateForm(role, projectCode)
               THEN [r EXCEPT !.phase = "done", !.outcome = "invalid_form"]
               ELSE IF role = "PA" THEN [r EXCEPT !.phase = "validate"]
               ELSE [r EXCEPT !.phase = "signUp"]
  /\ UNCHANGED <<authUsers, srvVars, appVars, exceptReg>>

\* the validation resolves: not valid ends the call before any sign-up
RegValidate(fetchFails) ==
  /\ reg.phase = "validate"
  /\ LET validation == RegValidation(reg.projectCode, fetchFails)
     IN reg' = IF ~validation.valid
               THEN [reg EXCEPT !.phase = "done", !.outcome = "invalid_code"]
               ELSE [reg EXCEPT !.phase = "signUp", !.valid = TRUE,
                                !.productionId = validation.productionId]
  /\ UNCHANGED <<authUsers, srvVars, appVars, exceptReg>>

\* auth.signUp resolves: with an error or without a user the call ends
RegSignUp(outcome) ==
  /\ reg.phase = "signUp"
  /\ IF outcome = "ok"
     THEN /\ authUsers' = authUsers \cup {RegIds[reg.calls]}
          /\ reg' = [reg EXCEPT !.phase = "insert", !.user = RegIds[reg.calls]]
     ELSE /\ RegEnd(IF outcome = "error" THEN "signup_error" ELSE "no_user")
          /\ UNCHANGED authUsers
  /\ UNCHANGED <<srvVars, appVars, exceptReg>>

\* the insert into users resolves: on tableError the message is shown and the
\* call ends
RegInsert(fails) ==
  /\ reg.phase = "insert"
  /\ IF fails
     THEN /\ RegEnd("table_error")
          /\ UNCHANGED users
     ELSE /\ users' = [users EXCEPT ![reg.user] = userInsertData(reg.role, reg.productionId)]
          /\ reg' = [reg EXCEPT !.phase = "signIn"]
  /\ UNCHANGED <<authUsers, productions, mw, page, invite, gen, appVars, exceptReg>>

\* signInWithPassword resolves: on an error the login page, else the PA's
\* dashboard, or for a PC the production_id query
RegSignIn(fails) ==
  /\ reg.phase = "signIn"
  /\ reg' = IF fails
            THEN [reg EXCEPT !.phase = "done", !.outcome = "created", !.redirect = "/login"]
            ELSE IF reg.role = "PA"
            THEN [reg EXCEPT !.phase = "done", !.outcome = "created", !.redirect = "/pa"]
            ELSE [reg EXCEPT !.phase = "redirect"]
  /\ UNCHANGED <<authUsers, srvVars, appVars, exceptReg>>

\* the PC's production_id query resolves
RegRedirect(fetchError) ==
  /\ reg.phase = "redirect"
  /\ reg' = [reg EXCEPT !.phase = "done", !.outcome = "created",
                        !.redirect = IF ~fetchError
                                        /\ UserRowById(reg.user).production_id # "none"
                                     THEN "/pc" ELSE "/pc/create-production"]
  /\ UNCHANGED <<authUsers, srvVars, appVars, exceptReg>>

\* PC2's production is active with the code ABC-234; nobody else has registered
InitRegister ==
  /\ InitApp
  /\ InitRt
  /\ InitLog
  /\ InitNav /\ InitSub /\ InitReg
  /\ InitMail
  /\ users = [u \in {PC2} \cup Range(RegIds) |->
                IF u = PC2 THEN [role |-> "PC", production_id |-> "prod1"] ELSE NoRow]
  /\ productions = <<[id |-> "prod1", invite_code |-> <<"A", "B", "C", "-", "2", "3", "4">>,
                      created_by |-> PC2, is_active |-> TRUE]>>
  /\ mw = NoMw
  /\ page = NoPage
  /\ invite = NoInvite
  /\ gen = NoGen

NextRegister ==
  \/ \E role \in RegRoles, projectCode \in RegCodes : handleRegister(role, projectCode)
  \/ \E fetchFails \in BOOLEAN : RegValidate(fetchFails)
  \/ \E outcome \in SignUpOutcomes : RegSignUp(outcome)
  \/ \E fails \in BOOLEAN : RegInsert(fails)
  \/ \E fails \in BOOLEAN : RegSignIn(fails)
  \/ \E fetchError \in BOOLEAN : RegRedirect(fetchError)

SpecRegister == InitRegister /\ [][NextRegister]_vars

\* ======================================================= generateInviteCode
\* The loop of generateInviteCode, one iteration a step.

\* Math.random() gives r / RandomScale for an r in 0 .. RandomScale - 1
RandomScale == 1000

\* the values of r drawn: the smallest, the largest and one between
RandomDraws == {0, 230, 999}

\* every upper-case letter and digit
alphanumerics ==
  <<"A", "B", "C", "D", "E", "F", "G", "H", "I", "J", "K", "L", "M", "N", "O", "P", "Q", "R", "S", "T", "U", "V", "W", "X", "Y", "Z", "0", "1", "2", "3", "4", "5", "6", "7", "8", "9">>

\* const chars = 'ABCDEFGHJKLMNPQRSTUVWXYZ23456789'
chars ==
  <<"A", "B", "C", "D", "E", "F", "G", "H", "J", "K", "L", "M", "N", "P", "Q", "R", "S", "T", "U", "V", "W", "X", "Y", "Z", "2", "3", "4", "5", "6", "7", "8", "9">>

\* chars[Math.floor(Math.random() * chars.length)]
RandomChar(r) == chars[((r * Len(chars)) \div RandomScale) + 1]

\* a call starts: code = '', i = 0
GenCall ==
  /\ gen.done
  /\ gen' = [i |-> 0, code |-> <<>>, done |-> FALSE]
  /\ UNCHANGED <<users, productions, mw, page, invite, console>>
  /\ UNCHANGED <<appVars, exceptSrv>>

\* one iteration: a character is appended, and the hyphen after the third;
\* the function returns after the sixth
GenStep(r) ==
  /\ ~gen.done
  /\ gen.i < 6
  /\ LET withChar == Append(gen.code, RandomChar(r))
     IN gen' = [i |-> gen.i + 1,
                code |-> IF gen.i = 2 THEN Append(withChar, "-") ELSE withChar,
                done |-> gen.i + 1 = 6]
  /\ UNCHANGED <<users, productions, mw, page, invite, console>>
  /\ UNCHANGED <<appVars, exceptSrv>>

InitGenerate ==
  /\ InitApp
  /\ InitRt
  /\ InitLog
  /\ InitNav /\ InitSub /\ InitReg
  /\ InitMail
  /\ InitSrv

NextGenerate ==
  \/ GenCall
  \/ \E r \in RandomDraws : GenStep(r)

SpecGenerate == InitGenerate /\ [][NextGenerate]_vars

\* ============================================ PACalendar: month navigation
\* getAvailableMonths: the current month and the three after it
MonthsAhead == 3
availableMonths == currentMonth .. (currentMonth + MonthsAhead)

\* the days the PA has records on or clicks: one in the current month, one in
\* the next
MonthDates == {1, 2}

canGoPrevious == selectedMonth > currentMonth
canGoNext == selectedMonth < currentMonth + MonthsAhead
isCurrentMonth == selectedMonth = currentMonth

\* setSelectedYear / setSelectedMonth, and the two effects that depend on
\* monthStartDate and monthEndDate: the fetch effect starts its select, the
\* subscription effect removes its channel and subscribes a new one.  The
\* controls are disabled while isLoadingAvailability.
CalSetMonth(month) ==
  /\ calMounted /\ calFetch.phase = "idle" /\ ~noteDialogOpen
  /\ month # selectedMonth
  /\ selectedMonth' = month
  /\ calFetch' = [NoCalFetch EXCEPT !.phase = "request"]
  /\ calFeed' = <<>>
  /\ UNCHANGED <<dbVars, gridVars, paVars, dailyVars, calMounted, calAvailability,
                 calIsLoading, calOp, calClock, calUI>>
  /\ UNCHANGED <<rtVars, logVars, mailVars, srvVars, subVars, regVars>>

goToPreviousMonth == canGoPrevious /\ CalSetMonth(selectedMonth - 1)
goToNextMonth == canGoNext /\ CalSetMonth(selectedMonth + 1)
goToCurrentMonth == ~isCurrentMonth /\ CalSetMonth(currentMonth)
handleMonthSelect(value) == CalSetMonth(value)

\* the calendar after its first render, with a preferred day in the current
\* month
InitMonths ==
  /\ dbAvail = InitAvail
  /\ dbShifts = {}
  /\ dbNextId = 3
  /\ writes = 0
  /\ InitGrid
  /\ InitExt
  /\ InitPA
  /\ calMounted = TRUE
  /\ calAvailability = <<>>
  /\ calIsLoading = FALSE
  /\ calFetch = [NoCalFetch EXCEPT !.phase = "request"]
  /\ calOp = NoCalOp
  /\ calFeed = <<>>
  /\ calClock = 0
  /\ selectedDate = 0
  /\ noteDialogOpen = FALSE
  /\ currentNote = ""
  /\ InitDaily

NextMonths ==
  \/ goToPreviousMonth
  \/ goToNextMonth
  \/ goToCurrentMonth
  \/ \E value \in availableMonths : handleMonthSelect(value)
  \/ \E fails \in BOOLEAN : CalFetchExec(fails)
  \/ CalFetchComplete
  \/ CalDeliver
  \/ \E d \in MonthDates : handleDateClick(d)
  \/ \E d \in MonthDates : handleNoteClick(d)
  \/ CalTypeNote("late")
  \/ saveNote
  \/ \E fails \in BOOLEAN : CalDbExec(fails)
  \/ CalComplete
  \/ \E fails \in BOOLEAN : CalRefetchExec(fails)
  \/ CalRefetchComplete

SpecMonths == InitMonths /\ [][NextMonths]_vars

\* ---------------------------------------------------------------- change-feed channels
\* PACalendar's availability subscription, PAShifts' per-user subscription and
\* PCRealtimeSubscriptions: useEffect opens a channel and returns a cleanup that
\* hands it to supabase.removeChannel. React runs the cleanup before the effect
\* runs again (a dependency changed) and when the component unmounts.
MaxChannels == 3
Routers == {1, 2}

\* the values the dependency array of a component's effect can take
DepKeys(c) ==
  CASE c = "PACalendar" ->
         {[userId |-> u, month |-> m, router |-> 0] : u \in {PA1, PA2}, m \in MonthDates}
    [] c = "PAShifts" ->
         {[userId |-> u, month |-> 0, router |-> 0] : u \in {NullUser, PA1}}
    [] OTHER ->
         {[userId |-> NullUser, month |-> 0, router |-> r] : r \in Routers}

\* PAShifts returns before subscribing when userId is missing; the others always subscribe
Subscribes(c, key) == c = "PAShifts" => key.userId # NullUser

\* supabase.channel(name).on(...).subscribe(): one more channel on the client
OpenChannel(chs, c, key) ==
  Append(chs, [component |-> c, key |-> key, state |-> "joined"])

\* a cleanup that leaves the channel as it is
KeepChannel(chs, n) == chs
\* supabase.removeChannel(channel): the channel is unsubscribed and dropped
removeChannel(chs, n) == [chs EXCEPT ![n].state = "closed"]

\* the cleanup function the effect returned: none when the effect returned early
Cleanup(chs, sub) == IF sub.channel = 0 THEN chs ELSE removeChannel(chs, sub.channel)

\* the effect body with the dependencies `key`, on the client's channels `chs`
RunEffect(c, key, chs) ==
  IF Subscribes(c, key)
  THEN /\ channels' = OpenChannel(chs, c, key)
       /\ subs' = [subs EXCEPT ![c] = [mounted |-> TRUE, key |-> key, channel |-> Len(chs) + 1]]
  ELSE /\ channels' = chs
       /\ subs' = [subs EXCEPT ![c] = [mounted |-> TRUE, key |-> key, channel |-> 0]]

\* the component mounts: the effect runs for the first time
SubMount(c, key) ==
  /\ ~subs[c].mounted
  /\ Len(channels) < MaxChannels
  /\ RunEffect(c, key, channels)
  /\ UNCHANGED appVars
  /\ UNCHANGED exceptSub

\* a dependency changed: the previous effect's cleanup, then the effect again
SubDepsChange(c, key) ==
  /\ subs[c].mounted
  /\ key # subs[c].key
  /\ Len(channels) < MaxChannels
  /\ RunEffect(c, key, Cleanup(channels, subs[c]))
  /\ UNCHANGED appVars
  /\ UNCHANGED exceptSub

\* the component unmounts: the last effect's cleanup
SubUnmount(c) ==
  /\ subs[c].mounted
  /\ channels' = Cleanup(channels, subs[c])
  /\ subs' = [subs EXCEPT ![c] = NoSub]
  /\ UNCHANGED appVars
  /\ UNCHANGED exceptSub

InitChannels == InitApp /\ InitExt

NextChannels ==
  \/ \E c \in Components : \E key \in DepKeys(c) : SubMount(c, key)
  \/ \E c \in Components : \E key \in DepKeys(c) : SubDepsChange(c, key)
  \/ \E c \in Components : SubUnmount(c)

\* every mounted component is unmounted in the end (the page is left), and React
\* then runs the cleanup of its effect
SpecChannels ==
  InitChannels /\ [][NextChannels]_vars /\ \A c \in Components : WF_vars(SubUnmount(c))

\* ================================================================ properties
NoTwoShiftsPerCell(s) ==
  \A i, j \in DOMAIN s :
    i # j => ~(s[i].assigned_pa_id = s[j].assigned_pa_id /\ s[i].date = s[j].date)

NoTwoIds(s) == \A i, j \in DOMAIN s : i # j => s[i].id # s[j].id

NoTwoRecordsPerDay(s) ==
  \A i, j \in DOMAIN s : i # j => ~(s[i].user_id = s[j].user_id /\ s[i].date = s[j].date)

InsertEvents(feed) == {ev \in Range(feed) : ev.type = "INSERT"}

NotifyFailures == {"no_details", "non_ok", "threw"}

\* C1: when the persistence call of a grid mutation (createShift, updateShift,
\* deleteShift) fails and nothing but the mutation has touched the store since its
\* optimistic apply, the failure handler leaves the shift collection with the
\* records, field for field, that it held just before the optimistic apply.
C1_RollbackRestoresStore ==
  [][(gridOp.phase = "response" /\ gridOp.error /\ gridOp'.kind = "none" /\ gridHist.clean)
       => Range(shifts') = Range(gridHist.pre)]_vars

\* C2: from createShift's optimistic apply on, whatever the order of its success
\* callback and the change-feed INSERT of the row, the grid's shift collection
\* never holds two shifts for one (PA, date) and never two entries with one id.
C2_GridShiftsUnique ==
  gridHist.kind = "create" => (NoTwoShiftsPerCell(shifts) /\ NoTwoIds(shifts))

\* C3: the calendar's availability collection never holds two records for one
\* (user, date), whatever the order of date clicks, note saves, their completions
\* and the change-feed events.
C3_CalendarOneRecordPerDay == NoTwoRecordsPerDay(calAvailability)

\* C4: for every merge handler, merging an INSERT event twice gives the store that
\* merging it once gives (one record with that id).
C4_InsertMergeIdempotent ==
  /\ \A ev \in InsertEvents(gridShiftsFeed) :
       /\ GridShiftsMerge(GridShiftsMerge(shifts, ev), ev) = GridShiftsMerge(shifts, ev)
       /\ DailyShiftsMerge(DailyShiftsMerge(shifts, ev), ev) = DailyShiftsMerge(shifts, ev)
  /\ \A ev \in InsertEvents(gridAvailFeed) :
       GridAvailMerge(GridAvailMerge(availability, ev), ev) = GridAvailMerge(availability, ev)
  /\ \A ev \in InsertEvents(paFeed) :
       PaShiftsMerge(PaShiftsMerge(paShifts, ev), ev) = PaShiftsMerge(paShifts, ev)
  /\ \A ev \in InsertEvents(calFeed) :
       CalAvailMerge(CalAvailMerge(calAvailability, ev), ev)
         = CalAvailMerge(calAvailability, ev)

\* the completion callback of the grid mutation in flight, and the echo of its write
GridCompletion(prev) ==
  CASE gridOp.kind = "create" -> CreateReplace(prev, gridOp.shift.id, gridOp.data)
    [] gridOp.kind = "update" -> UpdateReplace(prev, gridOp.shift, gridOp.data)
    [] OTHER -> prev

GridOwnEcho(ev) ==
  CASE gridOp.kind = "create" -> ev = Event("INSERT", gridOp.data)
    [] gridOp.kind = "update" -> ev = Event("UPDATE", gridOp.data)
    [] gridOp.kind = "delete" -> ev.type = "DELETE" /\ ev.row.id = gridOp.shift.id
    [] OTHER -> FALSE

\* C5: when a grid write has been persisted and its echo is the next event of the
\* feed, merging the echo and then running the completion callback gives the same
\* shift collection as running the callback and then merging the echo.
C5_EchoOrderConverges ==
  (/\ gridOp.phase = "response" /\ ~gridOp.error
   /\ gridShiftsFeed # <<>> /\ GridOwnEcho(Head(gridShiftsFeed)))
    => GridCompletion(GridShiftsMerge(shifts, Head(gridShiftsFeed)))
         = GridShiftsMerge(GridCompletion(shifts), Head(gridShiftsFeed))

\* C6: when the database holds no record for the day and the insert of a date
\* click or note save fails, the failure path ends with no record for that day in
\* the calendar's collection, which then equals the rows the re-fetch returned.
C6_FailedInsertLeavesNoRecord ==
  [][(/\ calOp.phase = "refetched" /\ calOp.mode = "insert" /\ calOp'.kind = "none"
      /\ DbAvailFor(PA1, calOp.date) = NullAvail)
       => (/\ getAvailabilityForDate(calOp.date, calAvailability') = NullAvail
           /\ calAvailability' = calOp.refetch.rows)]_vars

\* C7: a persisted confirmation status of confirmed or declined never changes to
\* another status; the row can only disappear (deletion by the PC).
C7_SettledStatusIsFinal ==
  [][\A r \in dbShifts :
       r.confirmation_status \in {"confirmed", "declined"}
         => \A q \in dbShifts' : q.id = r.id => q.confirmation_status = r.confirmation_status]_vars

\* C8: at the step where createShift applies the new shift, the store shows the
\* target (PA, date) as available or preferred and holds no shift for it, and the
\* new shift is pending.
C8_CreateOnlyOnOpenDay ==
  [][(gridOp.kind = "none" /\ gridOp'.kind = "create")
       => (/\ getAvailabilityStatus(selectedCell.paId, selectedCell.date, availability)
                \in {"available", "preferred"}
           /\ getShiftForCell(selectedCell.paId, selectedCell.date, shifts) = NullShift
           /\ gridOp'.shift.confirmation_status = "pending")]_vars

\* C9: when the email block of createShift, confirmShift or declineShift fails
\* after the persistence call has succeeded, the handler ends on its success path:
\* the store is left as the committed write made it and no rollback runs.
C9_NotifyFailureKeepsCommit ==
  [][/\ (/\ gridOp.kind = "create" /\ gridOp.phase = "email" /\ gridOp'.kind = "none"
         /\ gridHist'.email \in NotifyFailures)
          => (shifts' = shifts /\ gridHist'.toast = "success")
     /\ \A op \in paOps :
          (/\ op.phase = "email" /\ op \notin paOps' /\ paHist'.id = op.id
           /\ paHist'.email \in NotifyFailures)
            => (paShifts' = paShifts /\ paHist'.toast = "success")]_vars

\* a shift was assigned and then answered, both notifications failed, both handlers
\* toasted success and the PA's list shows the persisted answer
C9_Witness ==
  /\ gridHist.kind = "create" /\ gridHist.email \in NotifyFailures
  /\ gridHist.toast = "success"
  /\ paHist.email \in NotifyFailures /\ paHist.toast = "success"
  /\ \E r \in dbShifts : /\ r.id = paHist.id
                         /\ r.confirmation_status # "pending"
                         /\ r \in Range(paShifts)

\* C10: when a confirmShift / declineShift call fails while others are in flight,
\* its failure handler changes no record but its own: every other record of the
\* PA's list keeps the value it had.
C10_FailureLeavesOtherRecords ==
  [][\A op \in paOps :
       (op.phase = "response" /\ op.error /\ op \notin paOps')
         => \A i \in DOMAIN paShifts :
              paShifts[i].id # op.id
                => (i \in DOMAIN paShifts' /\ paShifts'[i] = paShifts[i])]_vars

\* a call has just failed while a call on another shift was in flight, and that
\* other shift still shows the status its own call gave it
C10_Witness ==
  /\ paHist.toast = "error"
  /\ \E o \in paOps :
       /\ o.id \in paHist.concurrent /\ o.id # paHist.id
       /\ \E i \in DOMAIN paShifts : /\ paShifts[i].id = o.id
                                     /\ paShifts[i].confirmation_status = PaTarget(o.kind)
       /\ \E i \in DOMAIN paShifts : /\ paShifts[i].id = paHist.id
                                     /\ paShifts[i].confirmation_status = "pending"

\* the write of a time edit on shift id: the row keeps every column but call_time
\* and wrap_time, and no other row changes
OnlyTimesChange(id) ==
  LET old == DbShiftById(id)
  IN \E new \in dbShifts' :
       /\ new.id = id
       /\ \A f \in DOMAIN old \ {"call_time", "wrap_time"} : new[f] = old[f]
       /\ dbShifts' \ {new} = dbShifts \ {old}

\* C12: the persistence update of a PC time edit (updateShift in the grid,
\* handleUpdateShift in the daily overview) changes call_time and wrap_time of its
\* row only, never confirmation_status, and the edit attempts no email.
C12_TimeEditWritesTimesOnly ==
  [][/\ (/\ gridOp.kind = "update" /\ gridOp.phase = "request"
         /\ gridOp'.phase = "response" /\ ~gridOp'.error)
          => OnlyTimesChange(gridOp.shift.id)
     /\ (dailyOp.phase = "request" /\ dailyOp'.phase = "response" /\ ~dailyOp'.error)
          => (/\ DOMAIN dailyOp.patch = {"call_time", "wrap_time"}
              /\ OnlyTimesChange(dailyOp.id))
     /\ (gridOp.kind = "update" /\ gridOp'.kind = "none") => gridHist'.email = "none"
     /\ (dailyOp.phase = "response" /\ dailyOp'.phase = "idle")
          => dailyHist'.email = "none"]_vars

\* a time edit of the daily overview has been saved on a shift that the PA had
\* confirmed: the row holds the new call time and is still confirmed
C12_Witness ==
  /\ dailyHist.toast = "success"
  /\ \E r \in dbShifts : /\ r.confirmation_status = "confirmed"
                         /\ r.call_time = <<8, 0, 0>>
                         /\ r \in Range(dailyShifts)

\* the HH:MM values a time field can hold
TimeInputs == {<<h, m>> : h \in {0, 8, 23}, m \in {0, 30, 59}}

\* C16: every HH:MM value t of a time field is persisted as t followed by ':00'
\* (grid and daily overview), and the persisted value is shown again as t: by the
\* shift cards' formatTime, by the edit fields of both dialogs, and by the grid's
\* view dialog when it shows a persisted shift.
C16_TimeRoundTrip ==
  /\ \A t \in TimeInputs :
       /\ formatTimeForDB(t) = t \o <<0>>
       /\ DailyTimeFormatted(t) = t \o <<0>>
       /\ formatTime(formatTimeForDB(t)) = t
       /\ TimeForInput(formatTimeForDB(t)) = t
       /\ TimeForInput(DailyTimeFormatted(t)) = t
  /\ \A r \in dbShifts :
       r.call_time # NullTime => r.call_time = SubSeq(r.call_time, 1, 2) \o <<0>>
  /\ (/\ isViewDialogOpen /\ selectedCell.shift \in dbShifts
      /\ selectedCell.shift.call_time # NullTime)
       => GridViewTime(selectedCell.shift.call_time) = SubSeq(selectedCell.shift.call_time, 1, 2)

\* C15: when the PC answers no to deleteShift's prompt, or the PA answers no to
\* declineShift's, the handler returns at once: no optimistic change, no
\* persistence request, no notification, and the store and the database are as
\* they were.
C15_NoAnswerChangesNothing ==
  [][/\ (gridHist'.prompt = "no" /\ gridHist.prompt # "no")
          => (/\ UNCHANGED <<dbVars, shifts, availability, selectedCell, isViewDialogOpen,
                             isLoading, gridOp, gridShiftsFeed, paFeed, dailyFeed, tempClock>>
              /\ gridHist' = [gridHist EXCEPT !.prompt = "no"])
     /\ (paHist'.prompt = "no" /\ paHist.prompt # "no")
          => (/\ UNCHANGED <<dbVars, paShifts, paIsLoading, paOps, gridShiftsFeed, paFeed,
                             dailyFeed, paClock>>
              /\ paHist' = [paHist EXCEPT !.prompt = "no"])]_vars

\* both prompts have been answered no: the shift is still pending in the database
\* and in both stores, and no call is in flight
C15_Witness ==
  /\ gridHist.prompt = "no" /\ paHist.prompt = "no"
  /\ dbShifts = {InitShift}
  /\ shifts = <<InitShift>> /\ paShifts = <<InitShift>>
  /\ gridOp = NoGridOp /\ paOps = {}
  /\ gridHist.toast = "none" /\ paHist.toast = "none"

\* the entries of a shift collection for one (PA, date)
CellEntries(s, paId, date) ==
  {i \in DOMAIN s : s[i].assigned_pa_id = paId /\ s[i].date = date}

\* C11: when createShift ends with success and the PA has not answered yet, the
\* grid's store holds exactly one shift for the (PA, date), and it is pending; when
\* the PA's confirmShift on a shift ends with success, the PA's list holds that id
\* as confirmed and the notification was attempted: the email block ran and, when
\* the user details could be fetched, sendShiftConfirmationEmail was called for the
\* assigning PC with confirmationStatus 'confirmed'.
C11_CreateThenConfirm ==
  [][/\ (/\ gridOp.kind = "create" /\ gridOp.phase = "email" /\ gridOp'.kind = "none"
         /\ gridHist'.toast = "success"
         /\ DbShiftById(gridOp.data.id).confirmation_status = "pending")
          => (/\ Cardinality(CellEntries(shifts', gridOp.data.assigned_pa_id,
                                         gridOp.data.date)) = 1
              /\ \A i \in CellEntries(shifts', gridOp.data.assigned_pa_id, gridOp.data.date) :
                   shifts'[i].id = gridOp.data.id
                     /\ shifts'[i].confirmation_status = "pending")
     /\ \A op \in paOps :
          (/\ op.kind = "confirm" /\ op \notin paOps' /\ paHist'.id = op.id
           /\ paHist'.toast = "success")
            => (/\ \E i \in DOMAIN paShifts' :
                     /\ paShifts'[i].id = op.id
                     /\ paShifts'[i].confirmation_status = "confirmed"
                /\ paHist'.email \in EmailOutcomes
                /\ paHist'.email # "no_details"
                     => paHist'.notify = [to |-> DbShiftById(op.id).assigned_by_id,
                                          confirmationStatus |-> "confirmed"])]_vars

\* the values of AvailabilityStatus: not set (null) and the three statuses
AvailabilityStatus == {NullStatus, "unavailable", "available", "preferred"}

\* the status a click asks the database for: none when the record is deleted
CalRequestedStatus(op) == IF op.mode = "delete" THEN NullStatus ELSE op.row.status

\* C13: cycleStatus is total over {not set, unavailable, available, preferred} and
\* maps not set -> unavailable -> available -> preferred -> not set: four
\* applications return the starting status and one, two or three never do; every
\* handleDateClick asks for the ring's successor of the status the date shows.
C13_CycleOfFour ==
  [][/\ \A s \in AvailabilityStatus :
          /\ cycleStatus(s) \in AvailabilityStatus
          /\ cycleStatus(s) = CASE s = NullStatus -> "unavailable"
                                [] s = "unavailable" -> "available"
                                [] s = "available" -> "preferred"
                                [] s = "preferred" -> NullStatus
          /\ cycleStatus(cycleStatus(cycleStatus(cycleStatus(s)))) = s
          /\ cycleStatus(s) # s
          /\ cycleStatus(cycleStatus(s)) # s
          /\ cycleStatus(cycleStatus(cycleStatus(s))) # s
     /\ (calOp.kind = "none" /\ calOp'.kind = "click")
          => (/\ calOp'.currentAvail.status \in AvailabilityStatus
              /\ calOp'.currentAvail = getAvailabilityForDate(calOp'.date, calAvailability)
              /\ CalRequestedStatus(calOp') = cycleStatus(calOp'.currentAvail.status))]_vars

\* a click on a 'preferred' date is on its way as a delete: the ring closes
C13_Witness ==
  /\ calOp.kind = "click" /\ calOp.mode = "delete"
  /\ calOp.currentAvail.status = "preferred"
  /\ getAvailabilityForDate(calOp.date, calAvailability) = NullAvail

\* C14: for every availability status (unavailable, available, preferred or none)
\* the grid's label and colour are the 'Assigned' ones when the cell has a shift and
\* the availability's own ones when it has none; so is every cell the grid renders.
C14_AssignmentPrecedence ==
  /\ \A status \in AvailabilityStatus :
       /\ getStatusLabel(status, TRUE) = "Assigned"
       /\ getStatusColor(status, TRUE) = "bg-primary text-primary-foreground"
       /\ getStatusLabel(status, FALSE) =
            CASE status = "preferred" -> "Preferred"
              [] status = "available" -> "Available"
              [] status = "unavailable" -> "Unavailable"
              [] status = NullStatus -> "No data"
       /\ getStatusColor(status, FALSE) =
            CASE status = "preferred" -> "bg-green-500 text-white"
              [] status = "available" -> "bg-green-200 text-green-900"
              [] status = "unavailable" -> "bg-red-200 text-red-900"
              [] status = NullStatus -> "bg-gray-100 text-gray-500"
  /\ \A d \in Dates :
       LET status == getAvailabilityStatus(PA1, d, availability)
           assigned == \E i \in DOMAIN shifts :
                         shifts[i].assigned_pa_id = PA1 /\ shifts[i].date = d
       IN /\ status \in AvailabilityStatus
          /\ assigned => /\ label(PA1, d) = "Assigned"
                          /\ colorClass(PA1, d) = "bg-primary text-primary-foreground"
          /\ ~assigned => /\ label(PA1, d) = getStatusLabel(status, FALSE)
                           /\ colorClass(PA1, d) = getStatusColor(status, FALSE)
                           /\ label(PA1, d) # "Assigned"

\* a cell whose PA is unavailable and has a shift
C14_Witness ==
  /\ getAvailabilityStatus(PA1, 1, availability) = "unavailable"
  /\ getShiftForCell(PA1, 1, shifts) # NullShift
  /\ label(PA1, 1) = "Assigned"

\* next is prev after an UPDATE event for row: the record with the row's id is
\* replaced by the row, or, when prev has no such record, the row is added
UpdateMerged(prev, next, row) ==
  IF \E i \in DOMAIN prev : prev[i].id = row.id
  THEN next = [i \in DOMAIN prev |-> IF prev[i].id = row.id THEN row ELSE prev[i]]
  ELSE /\ Len(next) = Len(prev) + 1
       /\ \E i \in DOMAIN next : next[i] = row
       /\ \A r \in Range(prev) : r \in Range(next)

\* C17: in each change-feed merge handler for shifts (PAShifts, the grid, the daily
\* overview), an UPDATE event whose id matches a stored record replaces that record
\* and an UPDATE event whose id is absent from the store adds the row to the store.
C17_UpdateUpserts ==
  [][/\ (/\ paFeed # <<>> /\ paFeed' = Tail(paFeed) /\ Head(paFeed).type = "UPDATE")
          => UpdateMerged(paShifts, paShifts', Head(paFeed).row)
     /\ (/\ gridShiftsFeed # <<>> /\ gridShiftsFeed' = Tail(gridShiftsFeed)
         /\ Head(gridShiftsFeed).type = "UPDATE")
          => UpdateMerged(shifts, shifts', Head(gridShiftsFeed).row)
     /\ (/\ dailyFeed # <<>> /\ dailyFeed' = Tail(dailyFeed)
         /\ Head(dailyFeed).type = "UPDATE")
          => UpdateMerged(dailyShifts, dailyShifts', Head(dailyFeed).row)]_vars

\* next is prev without the records whose id is the row's, the others as they were
DeleteMerged(prev, next, row) == next = SelectSeq(prev, LAMBDA r : r.id # row.id)

C19_OutOfWindowDropped ==
  [][/\ (/\ calFeed # <<>> /\ calFeed' = Tail(calFeed)
         /\ ~InWindow(Head(calFeed).row.date))
          => calAvailability' = calAvailability
     /\ (/\ gridShiftsFeed # <<>> /\ gridShiftsFeed' = Tail(gridShiftsFeed)
         /\ ~GridLoaded(Head(gridShiftsFeed).row.date))
          => shifts' = shifts
     /\ (/\ gridAvailFeed # <<>> /\ gridAvailFeed' = Tail(gridAvailFeed)
         /\ ~GridLoaded(Head(gridAvailFeed).row.date))
          => availability' = availability]_vars

\* C20: whatever change-feed events were published and merged, the PA's shift list
\* holds no shift assigned to another PA and the PA's calendar holds no availability
\* record of another user: the events of other users never reach the handlers.
C20_OnlyOwnRecords ==
  /\ \A i \in DOMAIN paShifts : paShifts[i].assigned_pa_id = PA1
  /\ \A i \in DOMAIN calAvailability : calAvailability[i].user_id = PA1
  /\ \A i \in DOMAIN paFeed : paFeed[i].row.assigned_pa_id = PA1
  /\ \A i \in DOMAIN calFeed : calFeed[i].row.user_id = PA1

\* a shift and an availability record of the other PA were written while the PA's
\* components were subscribed; their events went to the unfiltered channels only
C20_Witness ==
  /\ \E r \in dbShifts : r.assigned_pa_id = PA2
  /\ \E a \in dbAvail : a.user_id = PA2
  /\ paMounted /\ calMounted
  /\ \E i \in DOMAIN dailyFeed : dailyFeed[i].row.assigned_pa_id = PA2
  /\ \E i \in DOMAIN gridAvailFeed : gridAvailFeed[i].row.user_id = PA2
  /\ paFeed = <<>> /\ calFeed = <<>>

\* C21: in the components that resolve their user id after mount (AvailabilityGrid,
\* PARealtimeSubscriptions), before the user id is resolved no change-feed
\* subscription exists (no event is waiting on any of the component's channels) and
\* no event is merged into the store or acted on.
C21_NoFeedBeforeUserId ==
  [][/\ currentUserId = NullUser
          => /\ gridShiftsFeed' = <<>> /\ gridAvailFeed' = <<>>
             /\ shifts' = shifts /\ availability' = availability
     /\ rtUserId = NullUser
          => /\ rtFeed' = <<>>
             /\ rtRefreshes' = rtRefreshes]_vars

\* the statuses that report a failed, timed out or closed subscription
FailureStatuses == {"CHANNEL_ERROR", "TIMED_OUT", "CLOSED"}

C23_NoCascade ==
  [][/\ (\/ dbAvail' # dbAvail
         \/ availability' # availability
         \/ calAvailability' # calAvailability
         \/ calOp' # calOp
         \/ gridAvailFeed # <<>> /\ gridAvailFeed' = Tail(gridAvailFeed)
         \/ calFeed # <<>> /\ calFeed' = Tail(calFeed))
          => /\ dbShifts' = dbShifts
             /\ shifts' = shifts
             /\ paShifts' = paShifts
             /\ dailyShifts' = dailyShifts
     /\ (\/ gridOp' # gridOp /\ "delete" \in {gridOp.kind, gridOp'.kind}
         \/ \E r \in dbShifts : r \notin dbShifts'
         \/ /\ gridShiftsFeed # <<>> /\ gridShiftsFeed' = Tail(gridShiftsFeed)
            /\ Head(gridShiftsFeed).type = "DELETE")
          => /\ dbAvail' = dbAvail
             /\ availability' = availability
             /\ calAvailability' = calAvailability]_vars

\* the PA cleared the preferred day, the grid merged the DELETE event, and the shift
\* assigned on that day is still in the table and in the grid
C23_Witness ==
  /\ dbAvail = {} /\ availability = <<>> /\ calAvailability = <<>>
  /\ calOp.kind = "none" /\ calClock > 0 /\ gridAvailFeed = <<>>
  /\ dbShifts = {InitShift} /\ shifts = <<InitShift>>
  /\ hasShift(PA1, 1) /\ getAvailabilityStatus(PA1, 1, availability) = NullStatus

\* C24: when a time edit issues its persistence request (the grid's updateShift, the
\* daily overview's handleUpdateShift), the component's collection already shows the
\* new call and wrap times on the edited shift: the new local state is applied
\* before the request is in flight.
C24_OptimisticBeforeRequest ==
  [][/\ (gridOp.phase # "request" /\ gridOp'.phase = "request" /\ gridOp'.kind = "update")
          => \A i \in DOMAIN shifts' :
               shifts'[i].id = gridOp'.shift.id
                 => /\ shifts'[i].call_time = gridOp'.update.call_time
                    /\ shifts'[i].wrap_time = gridOp'.update.wrap_time
     /\ (dailyOp.phase # "request" /\ dailyOp'.phase = "request")
          => \A i \in DOMAIN dailyShifts' :
               dailyShifts'[i].id = dailyOp'.id
                 => /\ dailyShifts'[i].call_time = dailyOp'.patch.call_time
                    /\ dailyShifts'[i].wrap_time = dailyOp'.patch.wrap_time]_vars

C26_RouteGuard ==
  mw.phase = "done" =>
    LET underPA == mw.pathname = <<"/", "p", "a">> \/ startsWith(mw.pathname, <<"/", "p", "a", "/">>)
        underPC == mw.pathname = <<"/", "p", "c">> \/ startsWith(mw.pathname, <<"/", "p", "c", "/">>)
        role == UserRowById(mw.authUser).role
    IN /\ (underPA /\ mw.response = "next") => mw.authUser # NullUser /\ role = "PA"
       /\ (underPC /\ mw.response = "next") => mw.authUser # NullUser /\ role = "PC"
       /\ ((underPA \/ underPC) /\ mw.authUser = NullUser) => mw.response = "/login"
       /\ (underPA /\ mw.authUser # NullUser /\ role = "PC") => mw.response = "/pc"
       /\ (underPC /\ mw.authUser # NullUser /\ role = "PA") => mw.response = "/pa"

\* a PC asked for a page below /pa and was sent to /pc
C26_Witness ==
  /\ mw.phase = "done"
  /\ mw.pathname = <<"/", "p", "a", "/", "x">>
  /\ mw.authUser = PC1
  /\ UserRowById(PC1).role = "PC"
  /\ mw.response = "/pc"


\* C27: the PAs a PC's grid page or daily overview page has loaded are PA
\* users whose production_id is the id of a production that PC created; this
\* holds whether the PC has no production, one, or several.
C27_OnlyOwnProduction ==
  (page.phase = "done" /\ page.outcome = "ok" /\ UserRowById(page.authUser).role = "PC")
    => \A u \in page.pas :
         /\ users[u].role = "PA"
         /\ \E k \in 1..Len(productions) :
              /\ productions[k].created_by = page.authUser
              /\ productions[k].id = users[u].production_id


\* C28: when the route answers a request that carried a code, the answer is
\* {valid: true, productionId} with the id of a matching production exactly
\* when, at the time of the query, some production has the upper-cased code
\* as invite_code and is active, and {valid: false} without a productionId
\* otherwise; the client function returns the same.
C28_ValidIffActiveMatch ==
  [][(invite.phase = "query" /\ invite'.phase = "done") =>
       LET matching == {k \in 1..Len(productions) :
                          /\ productions[k].invite_code = toUpperCase(invite.code)
                          /\ productions[k].is_active}
       IN /\ invite'.response = "valid" <=> matching # {}
          /\ invite'.response = "valid"
               => \E k \in matching : productions[k].id = invite'.productionId
          /\ invite'.response # "valid"
               => invite'.response = "invalid" /\ invite'.productionId = "none"
          /\ invite'.client.valid <=> invite'.response = "valid"]_vars


\* C29: a code returned by generateInviteCode has seven characters, a hyphen
\* as the fourth, and the other six among the 32 symbols
\* ABCDEFGHJKLMNPQRSTUVWXYZ23456789, so never I, O, 0 or 1.
C29_CodeFormat ==
  gen.done =>
    /\ Len(gen.code) = 7
    /\ gen.code[4] = "-"
    /\ \A k \in {1, 2, 3, 5, 6, 7} :
         /\ gen.code[k] \in {"A", "B", "C", "D", "E", "F", "G", "H", "J", "K", "L",
                             "M", "N", "P", "Q", "R", "S", "T", "U", "V", "W", "X",
                             "Y", "Z", "2", "3", "4", "5", "6", "7", "8", "9"}
         /\ gen.code[k] \notin {"I", "O", "0", "1"}

\* a returned code that used the first and the last symbol of the alphabet
C29_Witness ==
  /\ gen.done
  /\ gen.code = <<"A", "H", "9", "-", "9", "A", "H">>


\* C30: a step of the grid's time edit (updateShift applying its optimistic
\* update, and the continuation after the persistence call, replacing with
\* the returned row or rolling back) leaves the confirmation_status of the
\* edited shift in the grid's collection as it was, whatever UPDATE events
\* were merged since the dialog was opened.
C30_TimeEditKeepsStatus ==
  [][\A id \in {gridOp.shift.id, gridOp'.shift.id} :
       (\/ gridOp.kind # "update" /\ gridOp'.kind = "update" /\ gridOp'.shift.id = id
        \/ gridOp.kind = "update" /\ gridOp.phase = "response" /\ gridOp' = NoGridOp
             /\ gridOp.shift.id = id)
         => {r.confirmation_status : r \in {x \in Range(shifts') : x.id = id}}
              = {r.confirmation_status : r \in {x \in Range(shifts) : x.id = id}}]_vars


\* C31: whenever the calendar is not loading a month, every record of its
\* availability collection has a date within the selected month, whatever the
\* order of month changes, fetches, date clicks, note saves and their
\* completions and re-fetches.
C31_OnlySelectedMonth ==
  (calMounted /\ calFetch.phase = "idle")
    => \A r \in Range(calAvailability) : InWindow(r.date)


\* C32: a placeholder record with a temp id, added by the grid's createShift or
\* by the calendar's handleDateClick or saveNote, is in the store only while
\* its operation is under way: once the persistence call has answered and the
\* operation has run to its end (success or failure), no temp-id record is left.
C32_NoTempIdOutlives ==
  /\ ~(gridOp.kind = "create" /\ gridOp.phase \in {"request", "response"})
       => \A r \in Range(shifts) : r.id > 0
  /\ calOp.phase = "idle"
       => \A r \in Range(calAvailability) : r.id > 0

\* C33: no email notification is attempted for a shift create, confirm or
\* decline whose persistence call failed: a mutation whose response carries an
\* error ends without entering its email block and records no email outcome,
\* and every mutation that is in its email block holds an error-free response
\* with the persisted row
C33_NoEmailAfterFailedWrite ==
  [][ /\ (gridOp.kind = "create" /\ gridOp.phase = "response" /\ gridOp.error
            /\ gridOp' # gridOp)
          => (gridOp'.phase # "email" /\ gridHist'.email = "none")
      /\ \A op \in paOps :
            (op.phase = "response" /\ op.error /\ op \notin paOps')
              => /\ \A o2 \in paOps' : o2.n = op.n => o2.phase # "email"
                 /\ paHist'.email = "none"
      /\ (gridOp'.phase = "email")
          => (~gridOp'.error /\ gridOp'.data # NullShift)
      /\ \A op \in paOps' :
            op.phase = "email" => (~op.error /\ op.data # NullShift) ]_vars
\* an email was attempted after a successful create and after a successful
\* confirm or decline
C33_Witness ==
  /\ gridHist.kind = "create" /\ gridHist.email = "sent" /\ gridHist.toast = "success"
  /\ paHist.email = "sent" /\ paHist.toast = "success"

C35_SummaryTotalIsCardCount ==
  dailyMounted =>
    \A date \in FeedDates : summary(date).total = Len(filteredShifts(date, "all"))

\* C36: following the middleware's redirects from any initial path, with the
\* authentication and role state fixed, a pass-through response is reached
\* after at most two redirects: no chain has a third redirect, and the
\* response to the request that follows a second redirect is a pass-through
C36_RedirectsEnd ==
  /\ mw.redirects <= 2
  /\ (mw.phase = "done" /\ mw.redirects = 2) => mw.response = "next"
\* a PC asked for a PA route, was sent to /pc, and /pc passed through
C36_Witness ==
  /\ mw.phase = "done" /\ mw.response = "next" /\ mw.redirects = 1
  /\ mw.pathname = <<"/", "p", "c">> /\ mw.userRole = "PC"

\* C37: registration is all-or-nothing with respect to identity: once
\* handleRegister has returned, every account of the auth service has its row
\* in users (a PA's with the validated production) and every registered row its
\* account; and for a PA no sign-up is issued unless the invite code was
\* found valid
C37_RegistrationAllOrNothing ==
  /\ reg.phase = "done"
       => \A id \in Range(RegIds) :
            /\ id \in authUsers <=> UserRowById(id) # NoRow
            /\ (id = reg.user /\ UserRowById(id).role = "PA")
                 => (reg.valid /\ UserRowById(id).production_id = reg.productionId
                     /\ reg.productionId # "none")
  /\ (reg.role = "PA" /\ reg.phase \in {"signUp", "insert", "signIn"}) => reg.valid
  /\ (reg.role = "PA" /\ reg.user # NullUser) => reg.valid

====
